---- MODULE Spec2Model ----
(***************************************************************************)
(* A model of pycba's RoadCBA engine (Slovak CBA guidelines OPII v3.0),    *)
(* src/pycba/roads/svk/OPIIv3p0/roadcba.py.                                *)
(*                                                                         *)
(* The engine is a single-threaded batch pipeline: every public method is  *)
(* one atomic action over the engine's fields.  pandas tables are modelled *)
(* as functions  row key -> (column -> cell).  Floating-point values are   *)
(* modelled exactly, as integers in a fixed unit that is stated where the  *)
(* table is defined; a NaN cell is the empty tuple and a present cell v is *)
(* the one-element tuple <<v>> in tables that can hold NaN.                *)
(***************************************************************************)
EXTENDS Integers, Sequences, FiniteSets, TLC

(***************************************************************************)
(* Bounds of the model.                                                    *)
(***************************************************************************)
\* first year of the evaluation period; the years 0 .. init_year-1 precede it
init_year == 2
\* duration of the evaluation period, in years
evaluation_period == 4
\* largest number of year columns of a supplied capex table
MaxCapexCols == 3
\* largest finite lifetime of a capex item, in years
MaxLifetime == 3
\* largest velocity of a traffic table, in km/h
MaxVelocity == 2
\* longest evaluation period of the runs of the economic indicators
EcoPeriod == 3
\* last year of the window of the CPI index; the first is yr_min
yr_max == 3

(***************************************************************************)
(* Cells that may be NaN.                                                  *)
(***************************************************************************)
nan == <<>>
num(v) == <<v>>
isna(c) == c = <<>>
fillna(c, v) == IF isna(c) THEN v ELSE c[1]

\* np.inf as a lifetime: every use of a lifetime treats this value by the
\* IEEE rules (inf <= n is false, (inf - n)/inf is NaN)
inf == -1

\* the sum of f[x] over the finite set S
RECURSIVE SumOver(_, _)
SumOver(S, f) ==
  IF S = {} THEN 0
  ELSE LET x == CHOOSE y \in S : TRUE IN f[x] + SumOver(S \ {x}, f)

\* the sum of the present cells f[x] over S: pandas' sum skips NaN
SumSkipNa(S, f) == SumOver({x \in S : ~isna(f[x])}, [x \in S |-> fillna(f[x], 0)])

\* n/d rounded to the nearest integer, halves to the even neighbour (d > 0):
\* numpy's round
RoundHalfEven(n, d) ==
  LET q == n \div d
      r == n % d
  IN IF 2 * r < d THEN q
     ELSE IF 2 * r > d THEN q + 1
     ELSE IF q % 2 = 0 THEN q ELSE q + 1

\* a dictionary d with d[k] set to v
Put(d, k, v) == [x \in DOMAIN d \cup {k} |-> IF x = k THEN v ELSE d[x]]

\* the largest element of a non-empty set of integers
Max(S) == CHOOSE x \in S : \A y \in S : y <= x

VARIABLES
  N_yr,          \* duration of the evaluation period
  r_eco,         \* economic discount rate, <<numerator, denominator>>
  res_val,       \* params_clean['res_val']: item -> record
  conv_fac,      \* params_clean['conv_fac']: factor name -> value, in percent
  params_clean,  \* the unit-cost parameter tables, by category
  gdp_growth,    \* GDP growth by year
  cpi,           \* the CPI table: year -> record
  yr_pl,         \* the price-level year
  params_raw,    \* the parameter tables as read, by category
  acc_loaded,    \* whether custom accident rates are loaded
  include_freight_time, \* whether freight time savings are appraised
  printed,       \* the last line written to standard output (verbose is off)
  cpi_source,    \* the key of the CPI series to read
  gdp_source,    \* the key of the GDP growth series to read
  RP,            \* road parameters: [index, rows]
  I0, I1,        \* intensities: (section, vehicle) -> year -> vehicles/day
  V0, V1,        \* velocities: (section, vehicle) -> year -> km/h
  capex_supplied, \* the capex table last given to read_project_inputs
  C_fin,         \* financial capex: [columns, data]
  yr_op,         \* first year of operation
  N_yr_bld,      \* number of construction years
  N_yr_op,       \* number of operation years
  yrs_op,        \* the operation years
  C_fin_tot,     \* total financial capex by item
  C_eco,         \* economic capex, in 1/100 of the currency unit
  C_eco_tot,     \* total economic capex by item, in 1/100
  RV,            \* deterioration table: item -> record
  L0, L1,        \* lengths: section -> year -> km
  T0, T1,        \* travel times: (section, vehicle) -> year -> time
  UC,            \* unit-cost series, by category
  I1_fin,        \* financial incomes of variant 1, by category
  I0_fin,        \* financial incomes of variant 0, by category
  toll_parameters, \* toll sections: id -> [toll_section_type_0, toll_section_type_1]
  RF,            \* fuel ratios: (vehicle, fuel) -> year -> share, in percent
  QF0, QF1,      \* fuel consumed per vehicle: (vehicle, fuel, section) -> year -> cell
  QFv0, QFv1,    \* its velocity-dependent part
  QFa0, QFa1,    \* its acceleration-dependent part
  B0, B1,        \* benefits of variant 0 and 1, by category
  O0_fin, O1_fin, \* financial operating costs, by category
  O0_eco, O1_eco, \* economic operating costs, by category
  NB,            \* net benefits: category -> year -> value
  NC,            \* net costs: category -> year -> value
  NI,            \* net incomes: category -> year -> value
  df_eco,        \* the ledger: (type, item) -> year -> value
  df_enpv,       \* the present value of every ledger row
  ENPV, ERR, EBCR, \* the economic indicators
  defined,       \* the engine fields that hold a value (are not None)
  err            \* the exception the last call raised, "" when it returned

paramVars == <<N_yr, r_eco, res_val, conv_fac, params_clean, gdp_growth, cpi,
               yr_pl, params_raw, acc_loaded, include_freight_time, printed,
               cpi_source, gdp_source>>
inputVars == <<RP, I0, I1, V0, V1, capex_supplied>>
coreVars == <<yr_op, N_yr_bld, N_yr_op, yrs_op>>
capexVars == <<C_fin, C_fin_tot, C_eco, C_eco_tot>>
matVars == <<L0, L1, T0, T1, UC>>
benefitVars == <<B0, B1, NB>>
opexVars == <<O0_fin, O1_fin, O0_eco, O1_eco>>
ecoVars == <<df_eco, df_enpv, ENPV, ERR, EBCR>>
fuelVars == <<RF, QF0, QF1, QFv0, QFv1, QFa0, QFa1>>
tollVars == <<toll_parameters, I0_fin>>

vars == <<paramVars, inputVars, coreVars, capexVars, RV, matVars, I1_fin,
          benefitVars, opexVars, NC, NI, ecoVars, fuelVars, tollVars, defined,
          err>>

(***************************************************************************)
(* The evaluation period (the generic base class's bookkeeping).           *)
(***************************************************************************)
yr_i == init_year
yrs == yr_i .. (yr_i + N_yr - 1)
yr_f == yr_i + N_yr - 1

(***************************************************************************)
(* Parameter tables (the state after prepare_parameters).                  *)
(***************************************************************************)
\* the order of the rows of the residual-value parameter table
ItemOrder == <<"land", "pavement", "bridges">>
Items == {ItemOrder[k] : k \in DOMAIN ItemOrder}

\* params_clean['capex_conv_fac']: for every item of the residual-value table
\* the conversion factor named by its default_conversion_factor, NaN when the
\* table of conversion factors has no row of that name (a left merge)
capex_conv_fac ==
  [i \in DOMAIN res_val |->
     IF res_val[i].default_conversion_factor \in DOMAIN conv_fac
     THEN num(conv_fac[res_val[i].default_conversion_factor])
     ELSE nan]

(***************************************************************************)
(* Capex tables.  A table is [columns |-> ascending sequence of years,     *)
(* data |-> item -> year -> cell], in currency units.                      *)
(***************************************************************************)
Range(s) == {s[k] : k \in DOMAIN s}

\* the elements of a finite set of integers, in ascending order
RECURSIVE SortedSeq(_)
SortedSeq(S) ==
  IF S = {} THEN <<>>
  ELSE LET m == Max(S) IN Append(SortedSeq(S \ {m}), m)

\* df.fillna(0) on a supplied capex table
CapexFillna(df) ==
  [columns |-> df.columns,
   data |-> [i \in DOMAIN df.data |->
               [y \in DOMAIN df.data[i] |-> fillna(df.data[i][y], 0)]]]

\* _wrangle_capex: [ok, C_fin].  Capex of the years before the evaluation
\* period is added to the column of its first year and those columns are
\* dropped; `C_fin[yr_i] += ...` raises KeyError when the table has no column
\* yr_i, and the table is then left zero-filled only
_wrangle_capex(df) ==
  LET filled == CapexFillna(df)
      capex_yrs == filled.columns
      yrs_bef == SelectSeq(capex_yrs, LAMBDA y : y < yr_i)
      yrs_aft == SelectSeq(capex_yrs, LAMBDA y : y >= yr_i)
  IN IF Len(yrs_bef) # 0
     THEN IF yr_i \notin Range(capex_yrs)
          THEN [ok |-> FALSE, C_fin |-> filled]
          ELSE [ok |-> TRUE,
                C_fin |-> [columns |-> yrs_aft,
                           data |-> [i \in DOMAIN filled.data |->
                              [y \in Range(yrs_aft) |->
                                 IF y = yr_i
                                 THEN filled.data[i][yr_i]
                                      + SumOver(Range(yrs_bef), filled.data[i])
                                 ELSE filled.data[i][y]]]]]
     ELSE [ok |-> TRUE, C_fin |-> filled]

\* _assign_core_variables, from the wrangled capex table C
core_yr_op(C) == C.columns[Len(C.columns)] + 1
core_N_yr_bld(C) == Len(C.columns)
core_N_yr_op(C) == N_yr - core_N_yr_bld(C)
core_yrs_op(C) == (yr_i + core_N_yr_bld(C)) .. (yr_i + N_yr - 1)

(***************************************************************************)
(* Capex, deterioration, residual value, replacements.                     *)
(***************************************************************************)
\* a variant of ConversionFactor that never looks the item up
MutConversionFactor(i) == conv_fac["aggregate"]

\* the conversion factor of a capex item, in percent: its own factor when the
\* merge finds one, the aggregate factor otherwise
ConversionFactor(i) ==
  IF i \in DOMAIN capex_conv_fac /\ ~isna(capex_conv_fac[i])
  THEN capex_conv_fac[i][1]
  ELSE conv_fac["aggregate"]

\* the capex table over all years of the evaluation period, 0 where no column
\* was supplied; columns outside the period are dropped
CapexAllYears(C) ==
  [columns |-> SortedSeq(yrs),
   data |-> [i \in DOMAIN C.data |->
               [y \in yrs |-> IF y \in Range(C.columns) THEN C.data[i][y] ELSE 0]]]

\* economic capex (in 1/100) of the financial capex table C
CapexEco(C) ==
  [i \in DOMAIN C.data |-> [y \in yrs |-> C.data[i][y] * ConversionFactor(i)]]

\* the column sums of a table  row -> year -> value  over the years Y
ColumnSums(M, Y) == [y \in Y |-> SumOver(DOMAIN M, [i \in DOMAIN M |-> M[i][y]])]
\* the same for a table whose cells may be NaN
ColumnSumsSkipNa(M, Y) ==
  [y \in Y |-> SumSkipNa(DOMAIN M, [i \in DOMAIN M |-> M[i][y]])]

compute_capex ==
  /\ "C_fin" \in defined
  /\ LET C == CapexAllYears(C_fin)
         E == CapexEco(C)
     IN /\ C_fin' = C
        /\ C_fin_tot' = [i \in DOMAIN C.data |-> SumOver(yrs, C.data[i])]
        /\ C_eco' = E
        /\ C_eco_tot' = [i \in DOMAIN E |-> SumOver(yrs, E[i])]
        /\ NC' = Put(NC, "capex", ColumnSums(E, yrs))
  /\ defined' = defined \cup {"C_fin_tot", "C_eco", "C_eco_tot"}
  /\ err' = ""
  /\ UNCHANGED <<paramVars, inputVars, coreVars, RV, matVars, I1_fin,
                 benefitVars, opexVars, NI, ecoVars,
                 fuelVars, tollVars>>

\* replacement flag of an item of lifetime l over an operation period of n years
Replace(l, n) == IF l # inf /\ l <= n THEN 1 ELSE 0

\* the ratio of remaining usefulness before fillna, in 1/100: NaN for an
\* infinite lifetime, else the quotient rounded to two decimals
RemRatioRaw(l, n) ==
  IF l = inf THEN nan
  ELSE IF Replace(l, n) = 1 THEN num(RoundHalfEven(100 * (2 * l - n), l))
  ELSE num(RoundHalfEven(100 * (l - n), l))

RemRatio(l, n) == fillna(RemRatioRaw(l, n), 100)

_compute_deterioration ==
  /\ "yr_op" \in defined
  /\ RV' = [i \in {j \in DOMAIN res_val : res_val[j].included} |->
              [lifetime |-> res_val[i].lifetime,
               replacement_cost_ratio |-> res_val[i].replacement_cost_ratio,
               op_period |-> N_yr_op,
               replace |-> Replace(res_val[i].lifetime, N_yr_op),
               rem_ratio |-> RemRatio(res_val[i].lifetime, N_yr_op)]]
  /\ defined' = defined \cup {"RV"}
  /\ err' = ""
  /\ UNCHANGED <<paramVars, inputVars, coreVars, capexVars, matVars, I1_fin,
                 benefitVars, opexVars, NC, NI, ecoVars,
                 fuelVars, tollVars>>

\* a call that raises e before it has assigned anything
Raise(e) ==
  /\ err' = e
  /\ UNCHANGED <<paramVars, inputVars, coreVars, capexVars, RV, matVars, I1_fin,
                 benefitVars, opexVars, NC, NI, ecoVars, defined,
                 fuelVars, tollVars>>

\* a variant of ResValue without the replacement-cost ratio
MutResValue(rv, value) == value * rv.rem_ratio * 100

\* the residual value of an item with deterioration record rv and total capex
\* value, in 1/10000 of the unit of value
ResValue(rv, value) ==
  IF rv.replace = 0
  THEN value * rv.rem_ratio * 100
  ELSE value * rv.rem_ratio * rv.replacement_cost_ratio

\* the residual-value matrix: all in the last year of the period
ResValMatrixFin ==
  [i \in DOMAIN RV |->
     [y \in yrs |->
        IF y = yr_f
        THEN ResValue(RV[i], IF i \in DOMAIN C_fin_tot THEN C_fin_tot[i] ELSE 0)
        ELSE 0]]

\* the economic one is NaN for an item with no capex row (no fillna there)
ResValMatrixEco ==
  [i \in DOMAIN RV |->
     [y \in yrs |->
        IF y = yr_f
        THEN (IF i \in DOMAIN C_eco_tot
              THEN num(ResValue(RV[i], C_eco_tot[i])) ELSE nan)
        ELSE num(0)]]

compute_residual_value ==
  IF "RV" \notin defined THEN Raise("AssertionError")
  ELSE IF "C_fin_tot" \notin defined THEN Raise("AttributeError")
  ELSE /\ I1_fin' = Put(I1_fin, "res_val", ResValMatrixFin)
       /\ B1' = Put(B1, "res_val", ResValMatrixEco)
       /\ NI' = Put(NI, "res_val", ColumnSums(ResValMatrixFin, yrs))
       /\ NB' = Put(NB, "res_val", ColumnSumsSkipNa(ResValMatrixEco, yrs))
       /\ err' = ""
       /\ UNCHANGED <<paramVars, inputVars, coreVars, capexVars, RV, matVars,
                      B0, opexVars, NC, ecoVars, defined,
                      fuelVars, tollVars>>

\* the items to replace, in the order of the deterioration table
ReplacedItems == SelectSeq(ItemOrder, LAMBDA i : i \in DOMAIN RV /\ RV[i].replace = 1)

\* the year in which an item is replaced
YrRepl(i) == yr_op - 1 + RV[i].lifetime

\* the replacement frame [columns, data] after the rows of the first k replaced
\* items are written: a new row is 0 in the columns that exist, the replacement
\* value goes to the column of the replacement year, which is added (NaN in
\* the rows written before) when it is no year of the period
RECURSIVE ReplFrame(_, _)
ReplFrame(k, tot) ==
  IF k = 0 THEN [columns |-> yrs, data |-> <<>>]
  ELSE LET F == ReplFrame(k - 1, tot)
           itm == ReplacedItems[k]
           cols == F.columns \cup {YrRepl(itm)}
       IN [columns |-> cols,
           data |-> [j \in DOMAIN F.data \cup {itm} |->
                       [y \in cols |->
                          IF j = itm
                          THEN (IF y = YrRepl(itm)
                                THEN num(tot[itm] * RV[itm].replacement_cost_ratio)
                                ELSE num(0))
                          ELSE IF y \in F.columns THEN F.data[j][y] ELSE nan]]]

compute_replacements ==
  IF "RV" \notin defined THEN Raise("AssertionError")
  ELSE IF ReplacedItems # <<>> /\ "C_fin_tot" \notin defined
  THEN Raise("AttributeError")
  ELSE IF \E k \in DOMAIN ReplacedItems : ReplacedItems[k] \notin DOMAIN C_fin_tot
  THEN Raise("KeyError")
  ELSE LET repl_fin == ReplFrame(Len(ReplacedItems), C_fin_tot)
           repl_eco == ReplFrame(Len(ReplacedItems), C_eco_tot)
       IN /\ O1_fin' = Put(O1_fin, "replacements", repl_fin)
          /\ O1_eco' = Put(O1_eco, "replacements", repl_eco)
          /\ NC' = Put(NC, "replacements",
                       ColumnSumsSkipNa(repl_eco.data, repl_eco.columns))
          /\ err' = ""
          /\ UNCHANGED <<paramVars, inputVars, coreVars, capexVars, RV, matVars,
                         I1_fin, benefitVars, O0_fin, O0_eco, NI, ecoVars,
                         defined,
                         fuelVars, tollVars>>

(***************************************************************************)
(* Project inputs.                                                         *)
(***************************************************************************)
\* _wrangle_intensity_velocity: the table over the evaluation years, NaN as 0
\* (the supplied traffic tables of this model cover the evaluation period)
_wrangle_intensity_velocity(df) ==
  [k \in DOMAIN df |-> [y \in yrs |-> fillna(df[k][y], 0)]]

inputFields == {"RP", "C_fin", "I0", "I1", "V0", "V1"}

ACCELERATION_COLUMNS ==
  <<"exit_intravilan", "roundabout_intravilan", "roundabout_extravilan",
    "intersection_intravilan", "intersection_extravilan", "interchange">>

\* self.RP[ACCELERATION_COLUMNS] raises KeyError when a column is missing
HasAccelerationColumns(df_rp) ==
  \A k \in DOMAIN df_rp : Range(ACCELERATION_COLUMNS) \subseteq DOMAIN df_rp[k]

\* the acceleration shares of the road table, NaN as 0
FillAcceleration(df_rp) ==
  [k \in DOMAIN df_rp |->
     [c \in DOMAIN df_rp[k] |->
        IF c \in Range(ACCELERATION_COLUMNS)
        THEN num(fillna(df_rp[k][c], 0)) ELSE df_rp[k][c]]]

\* _wrangle_inputs past the traffic tables: [ok, C_fin, rows].  A KeyError
\* of _wrangle_capex leaves the road table as copied; a missing acceleration
\* column raises after the capex table is wrangled
WrangleCapexAndRoads(df_rp, df_capex) ==
  LET w == _wrangle_capex(df_capex)
  IN IF ~w.ok THEN [ok |-> FALSE, C_fin |-> w.C_fin, rows |-> df_rp]
     ELSE IF ~HasAccelerationColumns(df_rp)
     THEN [ok |-> FALSE, C_fin |-> w.C_fin, rows |-> df_rp]
     ELSE [ok |-> TRUE, C_fin |-> w.C_fin, rows |-> FillAcceleration(df_rp)]

\* read_project_inputs: the copies, _wrangle_inputs, _assign_core_variables.
\* Nothing derived from earlier inputs is reset.  When _wrangle_inputs
\* raises, the traffic tables are wrangled already and the core variables
\* are not assigned.
\* a variant of read_project_inputs that invalidates the matrices derived
\* from the earlier inputs
MutReadInvalidates(df_rp, df_capex, df_int_0, df_int_1, df_vel_0, df_vel_1) ==
  LET w == WrangleCapexAndRoads(df_rp, df_capex)
  IN /\ RP' = [index |-> "range", rows |-> w.rows]
     /\ I0' = _wrangle_intensity_velocity(df_int_0)
     /\ I1' = _wrangle_intensity_velocity(df_int_1)
     /\ V0' = _wrangle_intensity_velocity(df_vel_0)
     /\ V1' = _wrangle_intensity_velocity(df_vel_1)
     /\ capex_supplied' = df_capex
     /\ C_fin' = w.C_fin
     /\ yr_op' = core_yr_op(w.C_fin)
     /\ N_yr_bld' = core_N_yr_bld(w.C_fin)
     /\ N_yr_op' = core_N_yr_op(w.C_fin)
     /\ yrs_op' = core_yrs_op(w.C_fin)
     /\ defined' = (defined \ {"L", "T0", "T1", "RF", "QF0", "QF1"})
                     \cup {"RP", "C_fin", "I0", "I1", "V0", "V1", "yr_op"}
     /\ err' = ""
     /\ UNCHANGED <<paramVars, C_fin_tot, C_eco, C_eco_tot, RV, matVars, I1_fin,
                    benefitVars, opexVars, NC, NI, ecoVars,
                    fuelVars, tollVars>>

read_project_inputs(df_rp, df_capex, df_int_0, df_int_1, df_vel_0, df_vel_1) ==
  LET w == WrangleCapexAndRoads(df_rp, df_capex)
  IN /\ RP' = [index |-> "range", rows |-> w.rows]
     /\ I0' = _wrangle_intensity_velocity(df_int_0)
     /\ I1' = _wrangle_intensity_velocity(df_int_1)
     /\ V0' = _wrangle_intensity_velocity(df_vel_0)
     /\ V1' = _wrangle_intensity_velocity(df_vel_1)
     /\ capex_supplied' = df_capex
     /\ C_fin' = w.C_fin
     /\ IF w.ok
        THEN /\ yr_op' = core_yr_op(w.C_fin)
             /\ N_yr_bld' = core_N_yr_bld(w.C_fin)
             /\ N_yr_op' = core_N_yr_op(w.C_fin)
             /\ yrs_op' = core_yrs_op(w.C_fin)
             /\ defined' = defined \cup inputFields \cup {"yr_op"}
             /\ err' = ""
        ELSE /\ UNCHANGED coreVars
             /\ defined' = defined \cup inputFields
             /\ err' = "KeyError"
     /\ UNCHANGED <<paramVars, C_fin_tot, C_eco, C_eco_tot, RV, matVars, I1_fin,
                    benefitVars, opexVars, NC, NI, ecoVars,
                    fuelVars, tollVars>>

\* road sections, variants, vehicles
Sections == {"s1", "s2"}
Vehicles == {"car"}

\* a row of the road-parameter table
RoadRow(key, length, width, area) ==
  [section_type |-> key[1], surface |-> key[2], condition |-> key[3],
   lower_usage |-> key[4], length |-> length, width |-> width, area |-> area]
    @@ [j \in Range(ACCELERATION_COLUMNS) |-> nan]

OpexKeyA == <<"road", "asphalt", "good", FALSE>>
OpexKeyB == <<"bridge", "concrete", "good", FALSE>>

\* a traffic table with the same value in every cell, over the columns Y
ConstTable(rows, Y, v) == [k \in rows |-> [y \in Y |-> num(v)]]

\* the inputs of a run that looks at the capex side only
DefaultRP ==
  [k \in {<<"s1", 0>>, <<"s1", 1>>} |-> RoadRow(OpexKeyA, 1, 1, nan)]
DefaultTraffic == ConstTable({<<"s1", "car">>}, yrs, 1)

(***************************************************************************)
(* Supplied capex tables: every ascending choice of at most MaxCapexCols   *)
(* year columns from year 0 to the end of the period, for a set of items,  *)
(* with every cell filled or with gaps.                                    *)
(***************************************************************************)
Amount(i) ==
  CASE i = "land" -> 10 [] i = "pavement" -> 20 [] i = "bridges" -> 30
    [] OTHER -> 5

CapexCell(pattern, i, y) ==
  IF pattern = "full" THEN num(Amount(i) + y)
  ELSE IF i = "pavement" \/ y % 2 = 1 THEN nan
  ELSE num(Amount(i) + y)

CapexTable(cols, its, pattern) ==
  [columns |-> SortedSeq(cols),
   data |-> [i \in its |-> [y \in cols |-> CapexCell(pattern, i, y)]]]

CapexItemSets ==
  {{"pavement"}, {"land", "pavement", "bridges"}, {"land", "supervision"}}

CapexInputs ==
  {CapexTable(cols, its, pattern) :
     cols \in {S \in SUBSET (0 .. yr_f) :
                 Cardinality(S) >= 1 /\ Cardinality(S) <= MaxCapexCols},
     its \in CapexItemSets,
     pattern \in {"full", "sparse"}}

(***************************************************************************)
(* The cumulative CPI index.  Inflation rates are in 1/CpiScale, so that   *)
(* the default rate of 0.02 is the integer infl; an index is the exact     *)
(* quotient <<numerator, denominator>>.  The price-level year lies in the  *)
(* window.                                                                 *)
(***************************************************************************)
CpiScale == 5 * 10
infl == 1
yr_min == 0

\* reindex over the window and fillna(infl): the rate of every year of the
\* window, the default where none is supplied
CpiRate(tab, y) == IF y \in DOMAIN tab THEN fillna(tab[y].cpi, infl) ELSE infl

\* a variant of CpiIndex that grows forward and shrinks backward in time
RECURSIVE MutCpiIndex(_, _)
MutCpiIndex(tab, y) ==
  IF y = yr_pl THEN <<1, 1>>
  ELSE IF y < yr_pl
  THEN LET nxt == MutCpiIndex(tab, y + 1)
       IN <<nxt[1] * CpiScale, nxt[2] * (CpiRate(tab, y) + CpiScale)>>
  ELSE LET prv == MutCpiIndex(tab, y - 1)
       IN <<prv[1] * (CpiRate(tab, y - 1) + CpiScale), prv[2] * CpiScale>>

\* the index of year y: 1 in the price-level year; before it the index of
\* the next year times (1 + rate of y); after it the index of the year before
\* divided by (1 + rate of the year before)
RECURSIVE CpiIndex(_, _)
CpiIndex(tab, y) ==
  IF y = yr_pl THEN <<1, 1>>
  ELSE IF y < yr_pl
  THEN LET nxt == CpiIndex(tab, y + 1)
       IN <<nxt[1] * (CpiRate(tab, y) + CpiScale), nxt[2] * CpiScale>>
  ELSE LET prv == CpiIndex(tab, y - 1)
       IN <<prv[1] * CpiScale, prv[2] * (CpiRate(tab, y - 1) + CpiScale)>>

WrangleCpi(tab) ==
  [y \in yr_min .. yr_max |->
     [cpi |-> num(CpiRate(tab, y)), cpi_index |-> CpiIndex(tab, y)]]

_wrangle_cpi ==
  /\ cpi' = WrangleCpi(cpi)
  /\ err' = ""
  /\ UNCHANGED <<N_yr, r_eco, res_val, conv_fac, params_clean, gdp_growth, yr_pl,
                 params_raw, acc_loaded, include_freight_time, printed,
                 cpi_source, gdp_source, inputVars,
                 coreVars, capexVars, RV, matVars, I1_fin, benefitVars,
                 opexVars, NC, NI, ecoVars, defined,
                 fuelVars, tollVars>>

(***************************************************************************)
(* The engine after construction and prepare_parameters, before any input. *)
(***************************************************************************)
\* the price side of a run that starts from prepared parameters: the index
\* of the default inflation, anchored in init_year
PreparedPrices ==
  /\ yr_pl = init_year
  /\ cpi = [y \in yr_min .. yr_max |->
              [cpi |-> num(infl), cpi_index |-> CpiIndex(<<>>, y)]]
  /\ params_raw = <<>>
  /\ acc_loaded = TRUE

InitFields ==
  /\ RP = <<>> /\ I0 = <<>> /\ I1 = <<>> /\ V0 = <<>> /\ V1 = <<>>
  /\ capex_supplied = <<>>
  /\ C_fin = <<>> /\ C_fin_tot = <<>> /\ C_eco = <<>> /\ C_eco_tot = <<>>
  /\ yr_op = 0 /\ N_yr_bld = 0 /\ N_yr_op = 0 /\ yrs_op = {}
  /\ RV = <<>>
  /\ L0 = <<>> /\ L1 = <<>> /\ T0 = <<>> /\ T1 = <<>> /\ UC = <<>>
  /\ I1_fin = <<>> /\ B0 = <<>> /\ B1 = <<>>
  /\ I0_fin = <<>> /\ toll_parameters = <<>>
  /\ RF = <<>> /\ QF0 = <<>> /\ QF1 = <<>>
  /\ QFv0 = <<>> /\ QFv1 = <<>> /\ QFa0 = <<>> /\ QFa1 = <<>>
  /\ O0_fin = <<>> /\ O1_fin = <<>> /\ O0_eco = <<>> /\ O1_eco = <<>>
  /\ NB = <<>> /\ NC = <<>> /\ NI = <<>>
  /\ df_eco = <<>> /\ df_enpv = <<>> /\ ENPV = <<>> /\ ERR = <<>> /\ EBCR = <<>>
  /\ defined = {}
  /\ err = ""
  /\ printed = ""

\* the engine as constructed, with the default sources of CPI and GDP growth
InitEngine ==
  /\ InitFields
  /\ cpi_source = "newest" /\ gdp_source = "newest"

\* the residual-value parameter tables of the capex runs
ResValChoices ==
  {[i \in Items |->
      CASE i = "land" ->
             [included |-> TRUE, default_conversion_factor |-> "land",
              lifetime |-> inf, replacement_cost_ratio |-> 100]
        [] i = "pavement" ->
             [included |-> TRUE, default_conversion_factor |-> "construction",
              lifetime |-> lp, replacement_cost_ratio |-> 50]
        [] OTHER ->
             [included |-> ib, default_conversion_factor |-> "structures",
              lifetime |-> MaxLifetime, replacement_cost_ratio |-> 120]] :
     lp \in (1 .. MaxLifetime) \cup {inf}, ib \in BOOLEAN}

ConvFac == ("aggregate" :> 90) @@ ("land" :> 100) @@ ("construction" :> 80)

(***************************************************************************)
(* SpecCapex: one set of project inputs, then the capex-side stages in any *)
(* order.                                                                  *)
(***************************************************************************)
InitCapex ==
  /\ N_yr = evaluation_period
  /\ r_eco = <<1, 10>>
  /\ res_val \in ResValChoices
  /\ conv_fac = ConvFac
  /\ PreparedPrices
  /\ include_freight_time = FALSE
  /\ params_clean = <<>>
  /\ gdp_growth = <<>>
  /\ InitEngine

ReadCapexInputs ==
  /\ "C_fin" \notin defined
  /\ \E df_capex \in CapexInputs :
       read_project_inputs(DefaultRP, df_capex, DefaultTraffic, DefaultTraffic,
                           DefaultTraffic, DefaultTraffic)

NextCapex ==
  \/ ReadCapexInputs
  \/ compute_capex
  \/ _compute_deterioration
  \/ compute_residual_value
  \/ compute_replacements

SpecCapex == InitCapex /\ [][NextCapex]_vars

(***************************************************************************)
(* Unit-cost series.  A parameter table of a category is                   *)
(* [has_gdp |-> whether it has a gdp_growth_adjustment column,             *)
(*  level_col |-> the name of its price-level column,                      *)
(*  rows |-> key -> [value, base_year, gdp_growth_adjustment]];            *)
(* base_year is the column of that name, or price_level when the table has *)
(* none.  GDP growth rates and elasticities are integers here, so that the *)
(* compounding is exact.  A unit-cost series is key -> year -> cell.       *)
(***************************************************************************)
\* the categories _create_unit_cost_matrix goes through, in its order
UCCategories == <<"c_op", "vtts", "voc_l", "voc_t", "c_fuel", "c_em",
                  "c_noise", "c_acc", "vfts", "c_toll", "i_toll">>

\* the product of two cells: NaN when either is
Mul(c, d) == IF isna(c) \/ isna(d) THEN nan ELSE num(c[1] * d[1])

\* a variant of GrowthFactor whose compounding stops at the first evaluation
\* year
MutGrowthFactorStops(tab, k, yr) ==
  IF yr > init_year THEN 1
  ELSE IF tab.has_gdp THEN 1 + gdp_growth[yr - 1] * tab.rows[k].gdp_growth_adjustment
  ELSE 1

\* a variant of GrowthFactor that does not look for the elasticity column
MutGrowthFactorAlways(tab, k, yr) ==
  1 + gdp_growth[yr - 1] * tab.rows[k].gdp_growth_adjustment

\* the yearly factor of a row: 1 + gdp_growth(year before) * elasticity when
\* the table has the column, else 1
GrowthFactor(tab, k, yr) ==
  IF tab.has_gdp THEN 1 + gdp_growth[yr - 1] * tab.rows[k].gdp_growth_adjustment
  ELSE 1

\* the value of row k in year yr >= y0, compounded from the base year y0: the
\* helper series up to yr_i and the evaluation series after it follow the same
\* recurrence
RECURSIVE Compound(_, _, _, _)
Compound(tab, k, y0, yr) ==
  IF yr = y0 THEN tab.rows[k].value
  ELSE Compound(tab, k, y0, yr - 1) * GrowthFactor(tab, k, yr)

\* the base year of a table: that of its first row
BaseYear(tab) == LET k == CHOOSE x \in DOMAIN tab.rows : TRUE IN tab.rows[k].base_year

\* the empty frame that is stored before anything about the table is checked
EmptyFrame(tab) == [k \in DOMAIN tab.rows |-> [y \in yrs |-> nan]]

\* a variant of UnitCostOf that keeps the base value over the evaluation
\* years when the base year is after init_year
MutUnitCostOf(tab) ==
  IF \E k \in DOMAIN tab.rows : tab.rows[k].base_year # BaseYear(tab)
  THEN [ok |-> FALSE, err |-> "AssertionError", frame |-> EmptyFrame(tab)]
  ELSE [ok |-> TRUE, err |-> "",
        frame |-> [k \in DOMAIN tab.rows |->
                     [y \in yrs |->
                        num(IF BaseYear(tab) > yr_i THEN tab.rows[k].value
                            ELSE Compound(tab, k, BaseYear(tab), y))]]]

\* the outcome for one category: [ok, err, frame]
UnitCostOf(tab) ==
  IF \E k \in DOMAIN tab.rows : tab.rows[k].base_year # BaseYear(tab)
  THEN [ok |-> FALSE, err |-> "AssertionError", frame |-> EmptyFrame(tab)]
  ELSE IF BaseYear(tab) > yr_i
  THEN [ok |-> FALSE, err |-> "KeyError", frame |-> EmptyFrame(tab)]
  ELSE [ok |-> TRUE, err |-> "",
        frame |-> [k \in DOMAIN tab.rows |->
                     [y \in yrs |-> num(Compound(tab, k, BaseYear(tab), y))]]]

\* UC after the first n categories, and the error met, if any
RECURSIVE UnitCostsUpTo(_)
UnitCostsUpTo(n) ==
  IF n = 0 THEN [UC |-> UC, err |-> ""]
  ELSE LET prev == UnitCostsUpTo(n - 1)
           b == UCCategories[n]
           r == UnitCostOf(params_clean[b])
       IN IF prev.err # "" THEN prev
          ELSE [UC |-> Put(prev.UC, b, r.frame), err |-> r.err]

\* greenhouse gases: emission rate times the carbon price of the year
UnitCostGhg ==
  [k \in DOMAIN params_clean["r_ghg"] |->
     [y \in yrs |-> num(params_clean["r_ghg"][k] * params_clean["c_ghg"].rows[y].value)]]

_create_unit_cost_matrix ==
  LET r == UnitCostsUpTo(Len(UCCategories))
  IN /\ UC' = IF r.err = "" THEN Put(r.UC, "c_ghg", UnitCostGhg) ELSE r.UC
     /\ err' = r.err
     /\ UNCHANGED <<paramVars, inputVars, coreVars, capexVars, RV, L0, L1, T0, T1,
                    I1_fin, benefitVars, opexVars, NC, NI, ecoVars, defined,
                    fuelVars, tollVars>>

(***************************************************************************)
(* Opex: maintenance of the road sections.  Areas in m2, unit costs in     *)
(* currency per m2, financial opex in currency, economic opex in 1/100.    *)
(***************************************************************************)
\* the rows of the road table of one variant
RowsOfVariant(v) == {k \in DOMAIN RP.rows : k[2] = v}

OpexKey(row) == <<row.section_type, row.surface, row.condition, row.lower_usage>>

\* the area of a section: given, or width * length * 1000
AreaOf(row) == IF isna(row.area) THEN row.width * row.length * 1000 ELSE row.area[1]

\* the road area of variant v by opex key
RoadArea(v) ==
  [key \in {OpexKey(RP.rows[k]) : k \in RowsOfVariant(v)} |->
     SumOver({k \in RowsOfVariant(v) : OpexKey(RP.rows[k]) = key},
             [k \in RowsOfVariant(v) |-> AreaOf(RP.rows[k])])]

\* (RA * UC).dropna(): the keys that have an area and a unit cost in every year
MaintenanceRaw(v) ==
  LET RA == RoadArea(v)
      U == UC["c_op"]
  IN [key \in {x \in DOMAIN RA \cap DOMAIN U : \A y \in yrs : ~isna(U[x][y])} |->
        [y \in yrs |-> RA[key] * U[key][y][1]]]

\* a variant of MaintenanceForced that leaves variant 1 as computed
MutMaintenanceForced(M0, M1) ==
  [key \in DOMAIN M0 \cup DOMAIN M1 |->
     [y \in yrs |-> IF key \in DOMAIN M1 THEN M1[key][y] ELSE 0]]

\* variant 1 with the construction years taken from variant 0: the outer
\* join of variant 0's construction years and variant 1's operation years,
\* NaN as 0
MaintenanceForced(M0, M1) ==
  [key \in DOMAIN M0 \cup DOMAIN M1 |->
     [y \in yrs |->
        IF y \in yrs \ yrs_op
        THEN (IF key \in DOMAIN M0 THEN M0[key][y] ELSE 0)
        ELSE (IF key \in DOMAIN M1 THEN M1[key][y] ELSE 0)]]

\* a table times a number
Scale(M, c) == [k \in DOMAIN M |-> [y \in DOMAIN M[k] |-> M[k][y] * c]]

\* a variant of NetCost with the variants exchanged
MutNetCost(M0, M1) == [y \in yrs |-> ColumnSums(M0, yrs)[y] - ColumnSums(M1, yrs)[y]]

\* a variant of NetCost that adds to the net cost already stored
MutNetCostAdds(M0, M1) ==
  [y \in yrs |-> ColumnSums(M1, yrs)[y] - ColumnSums(M0, yrs)[y]
                   + (IF "opex_maintenance" \in DOMAIN NC
                      THEN NC["opex_maintenance"][y] ELSE 0)]

\* net cost: variant 1 minus variant 0, by year
NetCost(M0, M1) == [y \in yrs |-> ColumnSums(M1, yrs)[y] - ColumnSums(M0, yrs)[y]]

compute_opex ==
  IF UC = <<>> THEN Raise("AssertionError")
  ELSE IF "c_op" \notin DOMAIN UC THEN Raise("KeyError")
  ELSE IF "RP" \notin defined THEN Raise("AttributeError")
  ELSE IF RP.index = "section_variant" THEN Raise("KeyError")
  ELSE IF "yr_op" \notin defined
  THEN /\ O0_fin' = Put(O0_fin, "maintenance", MaintenanceRaw(0))
       /\ O1_fin' = Put(O1_fin, "maintenance", MaintenanceRaw(1))
       /\ err' = "AttributeError"
       /\ UNCHANGED <<paramVars, inputVars, coreVars, capexVars, RV, matVars,
                      I1_fin, benefitVars, O0_eco, O1_eco, NC, NI, ecoVars,
                      defined,
                      fuelVars, tollVars>>
  ELSE LET M0 == MaintenanceRaw(0)
           M1 == MaintenanceForced(M0, MaintenanceRaw(1))
           cf == conv_fac["aggregate"]
       IN /\ O0_fin' = Put(O0_fin, "maintenance", M0)
          /\ O1_fin' = Put(O1_fin, "maintenance", M1)
          /\ O0_eco' = Put(O0_eco, "maintenance", Scale(M0, cf))
          /\ O1_eco' = Put(O1_eco, "maintenance", Scale(M1, cf))
          /\ NC' = Put(NC, "opex_maintenance", NetCost(Scale(M0, cf), Scale(M1, cf)))
          /\ err' = ""
          /\ UNCHANGED <<paramVars, inputVars, coreVars, capexVars, RV, matVars,
                         I1_fin, benefitVars, NI, ecoVars, defined,
                         fuelVars, tollVars>>

(***************************************************************************)
(* Lengths by section and year, one table per variant.  The road table     *)
(* ends up indexed by (id_road_section, variant).                          *)
(***************************************************************************)
LengthOfVariant(v) ==
  [s \in {k[1] : k \in RowsOfVariant(v)} |-> [y \in yrs |-> RP.rows[<<s, v>>].length]]

_create_length_matrix ==
  IF "RP" \notin defined THEN Raise("AttributeError")
  ELSE /\ RP' = [RP EXCEPT !.index = "section_variant"]
       /\ L0' = LengthOfVariant(0)
       /\ L1' = LengthOfVariant(1)
       /\ defined' = defined \cup {"L"}
       /\ err' = ""
       /\ UNCHANGED <<paramVars, I0, I1, V0, V1, capex_supplied, coreVars,
                      capexVars, RV, T0, T1, UC, I1_fin, benefitVars, opexVars,
                      NC, NI, ecoVars,
                      fuelVars, tollVars>>

(***************************************************************************)
(* Travel times by (section, vehicle) and year.  Lengths in km, velocities *)
(* in km/h, times in 1/TimeScale of an hour: every velocity of the model   *)
(* divides TimeScale, so the quotient is exact.                            *)
(***************************************************************************)
RECURSIVE Factorial(_)
Factorial(n) == IF n <= 1 THEN 1 ELSE n * Factorial(n - 1)
TimeScale == Factorial(MaxVelocity)

\* a variant of TimeCell that takes 0/0 as 0
MutTimeCell(l, v) ==
  IF v # 0 THEN num((l * TimeScale) \div v) ELSE num(0)

\* length / velocity: infinite (velocity 0, length not 0) becomes 0, and 0/0
\* is NaN
TimeCell(l, v) ==
  IF v # 0 THEN num((l * TimeScale) \div v)
  ELSE IF l # 0 THEN num(0)
  ELSE nan

\* L / V aligned on the section, rows with a NaN dropped: the rows of the
\* velocity table whose section has a length
TravelTime(L, V) ==
  LET cell(k, y) == TimeCell(L[k[1]][y], V[k][y])
  IN [k \in {x \in DOMAIN V : x[1] \in DOMAIN L /\ \A y \in yrs : ~isna(cell(x, y))} |->
        [y \in yrs |-> cell(k, y)[1]]]

_compute_travel_time_matrix ==
  IF "L" \notin defined
  THEN \E e \in {"AssertionError", "AttributeError"} : Raise(e)
  ELSE /\ T0' = TravelTime(L0, V0)
       /\ T1' = TravelTime(L1, V1)
       /\ defined' = defined \cup {"T0", "T1"}
       /\ err' = ""
       /\ UNCHANGED <<paramVars, inputVars, coreVars, capexVars, RV, L0, L1, UC,
                      I1_fin, benefitVars, opexVars, NC, NI, ecoVars,
                      fuelVars, tollVars>>

(***************************************************************************)
(* Value of travel time savings.  Rows are (vehicle, purpose, section):    *)
(* the unit costs by (vehicle, purpose) meet the travel times by (section, *)
(* vehicle) on the vehicle, and the intensities on both.  Rows that find   *)
(* no partner are all NaN and add nothing to a sum; they are left out.     *)
(* Money in 1/TimeScale of the currency unit.                              *)
(***************************************************************************)
DAYS_YEAR == 365

\* the rows of the product: a unit-cost row and a travel-time row of the same
\* vehicle
VttsRows(U, T) ==
  {r \in {<<u[1], u[2], t[1]>> : u \in DOMAIN U, t \in DOMAIN T} :
     <<r[3], r[1]>> \in DOMAIN T}

\* UC * T * I * DAYS_YEAR
VttsMatrix(U, T, I) ==
  [r \in VttsRows(U, T) |->
     [y \in yrs |->
        IF <<r[3], r[1]>> \in DOMAIN I
        THEN Mul(U[<<r[1], r[2]>>][y],
                 num(T[<<r[3], r[1]>>][y] * I[<<r[3], r[1]>>][y] * DAYS_YEAR))
        ELSE nan]]

\* a variant of NetBenefit with the variants exchanged
MutNetBenefit(M0, M1) ==
  [y \in yrs |-> ColumnSumsSkipNa(M1, yrs)[y] - ColumnSumsSkipNa(M0, yrs)[y]]

\* net benefit: variant 0 minus variant 1, by year, NaN skipped
NetBenefit(M0, M1) ==
  [y \in yrs |-> ColumnSumsSkipNa(M0, yrs)[y] - ColumnSumsSkipNa(M1, yrs)[y]]

_compute_vtts ==
  IF "T0" \notin defined \/ "T1" \notin defined THEN Raise("AssertionError")
  ELSE IF "vtts" \notin DOMAIN UC THEN Raise("KeyError")
  ELSE LET M0 == VttsMatrix(UC["vtts"], T0, I0)
           M1 == VttsMatrix(UC["vtts"], T1, I1)
       IN /\ B0' = Put(B0, "vtts", M0)
          /\ B1' = Put(B1, "vtts", M1)
          /\ NB' = Put(NB, "vtts", NetBenefit(M0, M1))
          /\ err' = ""
          /\ UNCHANGED <<paramVars, inputVars, coreVars, capexVars, RV, matVars,
                         I1_fin, opexVars, NC, NI, ecoVars, defined,
                         fuelVars, tollVars>>

(***************************************************************************)
(* Value of freight time savings.  The category key of the method is the   *)
(* list ['vfts'], which no dictionary takes as a key: reading UC[b] raises *)
(* TypeError before anything is stored.                                    *)
(***************************************************************************)
_compute_vfts ==
  IF "T0" \notin defined \/ "T1" \notin defined THEN Raise("AssertionError")
  ELSE Raise("TypeError")

(***************************************************************************)
(* Economic indicators.  The net series NC and NB hold money in            *)
(* 1/MoneyScale of the currency unit; the ledger, rounded to two decimals, *)
(* holds cents.  A rate is <<numerator, denominator>>, and a present value *)
(* over n years is an integer numerator over (denominator + numerator)^(n-1)*)
(***************************************************************************)
MoneyScale == 10 * 10 * 10

\* round(2): an amount in 1/MoneyScale to the nearest cent, halves to even
Round2(v) == RoundHalfEven(v * 100, MoneyScale)

\* a variant of LedgerSign that enters the costs as they are
MutLedgerSign(type) == 1

\* costs enter the ledger negated
LedgerSign(type) == IF type = "cost" THEN -1 ELSE 1

\* the years of the ledger: those of any series, ascending
EcoColumns ==
  UNION ({DOMAIN NC[c] : c \in DOMAIN NC} \cup {DOMAIN NB[b] : b \in DOMAIN NB})

\* the ledger: NaN where a series has no value for the year
Ledger ==
  [k \in {<<"cost", c>> : c \in DOMAIN NC} \cup {<<"benefit", b>> : b \in DOMAIN NB} |->
     LET series == IF k[1] = "cost" THEN NC[k[2]] ELSE NB[k[2]]
     IN [y \in EcoColumns |->
           IF y \in DOMAIN series THEN num(Round2(LedgerSign(k[1]) * series[y]))
           ELSE nan]]

\* npv: the numerator of the present value of the sequence v at rate r, the
\* first value undiscounted, over NpvDen
RECURSIVE NpvNum(_, _, _)
NpvNum(r, v, t) ==
  IF t > Len(v) THEN 0
  ELSE v[t] * (r[2] ^ (t - 1)) * ((r[1] + r[2]) ^ (Len(v) - t)) + NpvNum(r, v, t + 1)

NpvDen(r, v) == IF Len(v) = 0 THEN 1 ELSE (r[1] + r[2]) ^ (Len(v) - 1)

\* the cells of a ledger row in the order of the years
RowSeq(row) == LET c == SortedSeq(DOMAIN row) IN [t \in 1 .. Len(c) |-> row[c[t]]]

\* the values of a ledger row without NaN, in the order of the years
RowValues(row) == [t \in 1 .. Len(RowSeq(row)) |-> RowSeq(row)[t][1]]

\* the present value of a ledger row, rounded to the cent: NaN when a cell is
RowNpv(row) ==
  IF \E y \in DOMAIN row : isna(row[y]) THEN nan
  ELSE num(RoundHalfEven(NpvNum(r_eco, RowValues(row), 1),
                         NpvDen(r_eco, RowValues(row))))

\* the column sums of the ledger, NaN skipped, in the order of the years
LedgerSums(led) ==
  LET c == SortedSeq(EcoColumns)
  IN [t \in 1 .. Len(c) |-> SumSkipNa(DOMAIN led, [k \in DOMAIN led |-> led[k][c[t]]])]

\* the rates the model can name as an internal rate of return
RateGrid == {<<0, 1>>, <<1, 10>>, <<1, 5>>, <<1, 2>>, <<1, 1>>}

\* the number of changes of sign along a sequence, zeros left out
RECURSIVE SignChanges(_, _, _)
SignChanges(v, t, last) ==
  IF t > Len(v) THEN 0
  ELSE IF v[t] = 0 THEN SignChanges(v, t + 1, last)
  ELSE LET sgn == IF v[t] > 0 THEN 1 ELSE -1
       IN (IF last # 0 /\ sgn # last THEN 1 ELSE 0) + SignChanges(v, t + 1, sgn)

\* irr: the rate above -100% of least magnitude at which the present value is
\* 0.  Without a change of sign there is none (NaN); with one change there is
\* exactly one, and the model names it when it is a rate of RateGrid; any
\* other outcome is a rate the model does not name.
Irr(v) ==
  LET roots == {r \in RateGrid : NpvNum(r, v, 1) = 0}
  IN IF SignChanges(v, 1, 0) = 0 THEN [kind |-> "nan", rate |-> <<0, 1>>]
     ELSE IF SignChanges(v, 1, 0) = 1 /\ roots # {}
     THEN [kind |-> "rate", rate |-> CHOOSE r \in roots : TRUE]
     ELSE [kind |-> "unnamed", rate |-> <<0, 1>>]

\* the sum of the rounded present values of the rows of a type, NaN skipped
TypeNpv(enpv, type) ==
  SumSkipNa({k \in DOMAIN enpv : k[1] = type}, [k \in DOMAIN enpv |-> enpv[k]])

\* Without a cost row or without a benefit row the ratio cannot be taken:
\* everything before it is set already.
compute_economic_indicators ==
  LET led == Ledger
      enpv == [k \in DOMAIN led |-> RowNpv(led[k])]
      sums == LedgerSums(led)
  IN /\ df_eco' = led
     /\ df_enpv' = enpv
     /\ ENPV' = <<NpvNum(r_eco, sums, 1), NpvDen(r_eco, sums)>>
     /\ ERR' = Irr(sums)
     /\ defined' = defined \cup {"df_eco"}
     /\ IF NB = <<>> \/ NC = <<>>
        THEN EBCR' = EBCR /\ err' = "KeyError"
        ELSE /\ EBCR' = <<TypeNpv(enpv, "benefit"), -TypeNpv(enpv, "cost")>>
             /\ err' = ""
     /\ UNCHANGED <<paramVars, inputVars, coreVars, capexVars, RV, matVars,
                    I1_fin, benefitVars, opexVars, NC, NI,
                    fuelVars, tollVars>>

(***************************************************************************)
(* Parameter tables.                                                       *)
(***************************************************************************)
ParamRow(v, by, e) == [value |-> v, base_year |-> by, gdp_growth_adjustment |-> e]

\* the name of the column of the price level after prepare_parameters
LevelCol(has_gdp) == IF has_gdp THEN "base_year" ELSE "price_level"

\* a table with one row
OneRow(k, v, by, has_gdp) ==
  [has_gdp |-> has_gdp, level_col |-> LevelCol(has_gdp),
   rows |-> [x \in {k} |-> ParamRow(v, by, 1)]]

\* the tables of the categories a run does not look at, in price level by
DefaultParams(by) ==
  [b \in Range(UCCategories) \cup {"r_ghg", "c_ghg"} |->
     CASE b = "c_op" -> OneRow(OpexKeyA, 1, by, TRUE)
       [] b = "vtts" -> OneRow(<<"car", "business">>, 2, by, TRUE)
       [] b = "voc_l" -> OneRow(<<"car", "petrol">>, 1, by, FALSE)
       [] b = "voc_t" -> OneRow(<<"car", "petrol">>, 1, by, FALSE)
       [] b = "c_fuel" -> OneRow("petrol", 1, by, FALSE)
       [] b = "c_em" -> OneRow(<<"nox", "rural">>, 1, by, TRUE)
       [] b = "c_noise" -> OneRow(<<"car", "rural">>, 1, by, TRUE)
       [] b = "c_acc" -> OneRow("fatal", 1, by, TRUE)
       [] b = "vfts" -> [has_gdp |-> TRUE, level_col |-> "base_year",
                         rows |-> [k \in {"mgv", "hgv"} |-> ParamRow(1, by, 1)]]
       [] b = "c_toll" -> OneRow("toll_gate", 1, by, FALSE)
       [] b = "i_toll" -> OneRow(<<"car", "motorway">>, 1, by, FALSE)
       [] b = "r_ghg" -> [x \in {<<"car", "petrol", "co2">>} |-> 1]
       [] OTHER -> [has_gdp |-> FALSE, level_col |-> "price_level",
                    rows |-> [y \in 0 .. yr_f |-> ParamRow(1, by, 1)]]]

\* the GDP growth table: the same rate g every year
GdpGrowth(g) == [y \in 0 .. yr_f |-> g]

(***************************************************************************)
(* SpecOpex: one set of project inputs, the unit costs and the opex, in    *)
(* any order.  The maintenance table has a row for key A, and one for key  *)
(* B or not; variant 1 may have a section more than variant 0; capex is    *)
(* spent in the first n years of the period, or only before it.            *)
(***************************************************************************)
OpexParamChoices ==
  {[has_gdp |-> TRUE, level_col |-> "base_year",
    rows |-> [k \in K |-> ParamRow(IF k = OpexKeyA THEN 1 ELSE 3, by,
                                  IF k = OpexKeyA THEN 1 ELSE 0)]] :
     K \in {{OpexKeyA}, {OpexKeyA, OpexKeyB}},
     by \in (init_year - 1) .. (init_year + 1)}

RoadRowChoices(K) ==
  {RoadRow(k, c[1], 1, c[2]) : k \in K, c \in {<<1, nan>>, <<2, nan>>, <<1, num(500)>>}}

RoadInputs ==
  {(<<"s1", 0>> :> r0) @@ (<<"s1", 1>> :> r1) @@ extra :
     r0 \in RoadRowChoices({OpexKeyA}),
     r1 \in RoadRowChoices({OpexKeyA, OpexKeyB}),
     extra \in {<<>>, (<<"s2", 1>> :> RoadRow(OpexKeyB, 1, 1, nan))}}

OpexCapexInputs ==
  {CapexTable(yr_i .. (yr_i + n - 1), {"pavement"}, "full") : n \in 1 .. N_yr}
    \cup {CapexTable({yr_i - 1}, {"pavement"}, "full")}

InitOpex ==
  /\ N_yr = evaluation_period
  /\ r_eco = <<1, 10>>
  /\ res_val \in ResValChoices
  /\ res_val["pavement"].lifetime = inf /\ res_val["bridges"].included
  /\ conv_fac = ConvFac
  /\ PreparedPrices
  /\ include_freight_time = FALSE
  /\ \E t \in OpexParamChoices :
       params_clean = [DefaultParams(init_year) EXCEPT !["c_op"] = t]
  /\ \E g \in {0, 1} : gdp_growth = GdpGrowth(g)
  /\ InitEngine

ReadOpexInputs ==
  /\ "RP" \notin defined
  /\ \E df_rp \in RoadInputs, df_capex \in OpexCapexInputs :
       read_project_inputs(df_rp, df_capex, DefaultTraffic, DefaultTraffic,
                           DefaultTraffic, DefaultTraffic)

NextOpex ==
  \/ ReadOpexInputs
  \/ _create_unit_cost_matrix
  \/ _create_length_matrix
  \/ compute_opex

SpecOpex == InitOpex /\ [][NextOpex]_vars

(***************************************************************************)
(* SpecVtts: one set of project inputs, then lengths, travel times, unit   *)
(* costs and the value of travel time savings, in any order.  Section s1   *)
(* has any velocity up to MaxVelocity in either variant and an intensity   *)
(* of 0 or 1 in the first year and in the later years; section s2, when    *)
(* there, carries one vehicle a day.                                       *)
(***************************************************************************)
\* a traffic table: row k has a[k][1] in the first year and a[k][2] later
TrafficTable(a) ==
  [k \in DOMAIN a |-> [y \in yrs |-> num(IF y = yr_i THEN a[k][1] ELSE a[k][2])]]

VttsParams ==
  [has_gdp |-> TRUE, level_col |-> "base_year",
   rows |-> (<<"car", "business">> :> ParamRow(2, init_year, 1))
              @@ (<<"car", "private">> :> ParamRow(1, init_year, 0))]

VttsRoadInputs ==
  {[k \in {<<"s1", 0>>, <<"s1", 1>>} \cup (S \X {0, 1}) |->
      RoadRow(OpexKeyA, IF k = <<"s1", 0>> THEN l ELSE 1, 1, nan)] :
     l \in {1, 2}, S \in {{}, {"s2"}}}

\* the traffic tables <<I0, I1, V0, V1>> that go with a road table
VttsTrafficInputs(df_rp) ==
  LET two == <<"s2", 0>> \in DOMAIN df_rp
      rows == {<<"s1", "car">>} \cup (IF two THEN {<<"s2", "car">>} ELSE {})
      tab(x, z) == TrafficTable([k \in rows |-> IF k[1] = "s1" THEN x ELSE z])
  IN {<<tab(i0, <<1, 1>>), tab(i1, <<1, 1>>), tab(<<v0, v0>>, <<1, 1>>),
        tab(<<v1, v1>>, <<w1, w1>>)>> :
        i0 \in {0, 1} \X {0, 1}, i1 \in {0, 1} \X {0, 1},
        v0 \in 0 .. MaxVelocity, v1 \in 0 .. MaxVelocity,
        w1 \in IF two THEN {1, MaxVelocity} ELSE {1}}

InitVtts ==
  /\ N_yr = evaluation_period
  /\ r_eco = <<1, 10>>
  /\ res_val \in ResValChoices
  /\ res_val["pavement"].lifetime = inf /\ res_val["bridges"].included
  /\ conv_fac = ConvFac
  /\ PreparedPrices
  /\ include_freight_time = FALSE
  /\ params_clean = [DefaultParams(init_year) EXCEPT !["vtts"] = VttsParams]
  /\ \E g \in {0, 1} : gdp_growth = GdpGrowth(g)
  /\ InitEngine

ReadVttsInputs ==
  /\ "RP" \notin defined
  /\ \E df_rp \in VttsRoadInputs :
       \E t \in VttsTrafficInputs(df_rp) :
         read_project_inputs(df_rp, CapexTable({yr_i}, {"pavement"}, "full"),
                             t[1], t[2], t[3], t[4])

NextVtts ==
  \/ ReadVttsInputs
  \/ _create_unit_cost_matrix
  \/ _create_length_matrix
  \/ _compute_travel_time_matrix
  \/ _compute_vtts

SpecVtts == InitVtts /\ [][NextVtts]_vars

(***************************************************************************)
(* SpecEco: the economic indicators of net series as the stages leave      *)
(* them, over a period of 1 to EcoPeriod years: capex in the first year,   *)
(* maintenance the same every year or absent, replacements absent, zero,   *)
(* or with a year beyond the period, and any travel time savings; or no    *)
(* net costs, or no net benefits, at all.                                  *)
(***************************************************************************)
CostAmounts == {0, 15, 100 * MoneyScale}
BenefitAmounts == {0, 4, 121 * MoneyScale}
OpexAmounts == {0, 5, 2500}

\* d with the key k, unless v is no series
PutSome(d, k, v) == IF v = <<>> THEN d ELSE Put(d, k, v[1])

EcoCostChoices ==
  {PutSome(PutSome(Put(<<>>, "capex", [y \in yrs |-> IF y = yr_i THEN c ELSE 0]),
                   "opex_maintenance", o),
           "replacements", rp) :
     c \in CostAmounts,
     o \in {<<>>} \cup {<<[y \in yrs |-> a]>> : a \in OpexAmounts \ {0}},
     rp \in {<<>>, <<[y \in yrs |-> 0]>>,
             <<[y \in yrs \cup {yr_f + 1} |-> IF y = yr_f + 1 THEN 7 ELSE 0]>>}}

EcoBenefitChoices == {Put(<<>>, "vtts", f) : f \in [yrs -> BenefitAmounts]}

InitEco ==
  /\ N_yr \in 1 .. EcoPeriod
  /\ r_eco \in {<<0, 1>>, <<1, 10>>}
  /\ res_val \in ResValChoices
  /\ res_val["pavement"].lifetime = inf /\ res_val["bridges"].included
  /\ conv_fac = ConvFac
  /\ PreparedPrices
  /\ include_freight_time = FALSE
  /\ params_clean = <<>>
  /\ gdp_growth = <<>>
  /\ RP = <<>> /\ I0 = <<>> /\ I1 = <<>> /\ V0 = <<>> /\ V1 = <<>>
  /\ capex_supplied = <<>>
  /\ C_fin = <<>> /\ C_fin_tot = <<>> /\ C_eco = <<>> /\ C_eco_tot = <<>>
  /\ yr_op = 0 /\ N_yr_bld = 0 /\ N_yr_op = 0 /\ yrs_op = {}
  /\ RV = <<>>
  /\ L0 = <<>> /\ L1 = <<>> /\ T0 = <<>> /\ T1 = <<>> /\ UC = <<>>
  /\ I1_fin = <<>> /\ B0 = <<>> /\ B1 = <<>>
  /\ I0_fin = <<>> /\ toll_parameters = <<>>
  /\ RF = <<>> /\ QF0 = <<>> /\ QF1 = <<>>
  /\ QFv0 = <<>> /\ QFv1 = <<>> /\ QFa0 = <<>> /\ QFa1 = <<>>
  /\ O0_fin = <<>> /\ O1_fin = <<>> /\ O0_eco = <<>> /\ O1_eco = <<>>
  /\ NB \in EcoBenefitChoices \cup {<<>>}
  /\ NC \in EcoCostChoices \cup {<<>>}
  /\ NI = <<>>
  /\ df_eco = <<>> /\ df_enpv = <<>> /\ ENPV = <<>> /\ ERR = <<>> /\ EBCR = <<>>
  /\ defined = {}
  /\ err = ""
  /\ printed = ""
  /\ cpi_source = "newest" /\ gdp_source = "newest"

NextEco == compute_economic_indicators

SpecEco == InitEco /\ [][NextEco]_vars

(***************************************************************************)
(* Claims on the capex side, checked under SpecCapex.                      *)
(***************************************************************************)
\* the supplied table has a column before the evaluation period
HasPrePeriod == \E k \in DOMAIN capex_supplied.columns : capex_supplied.columns[k] < yr_i

\* the supplied cell of item i in year y, 0 when empty or not supplied
SuppliedCell(i, y) ==
  IF y \in Range(capex_supplied.columns) THEN fillna(capex_supplied.data[i][y], 0)
  ELSE 0

\* C8: for any capex table with a column earlier than init_year (with or
\* without an init_year column), read_project_inputs leaves a table whose
\* init_year value is the original one (0 if none) plus the pre-period sum,
\* with no column before init_year, the later columns unchanged and every
\* item's total preserved.
C8_PrePeriodSqueezed ==
  ("C_fin" \in defined /\ HasPrePeriod) =>
     /\ \A k \in DOMAIN C_fin.columns : C_fin.columns[k] >= yr_i
     /\ yr_i \in Range(C_fin.columns)
     /\ \A i \in DOMAIN C_fin.data :
          /\ C_fin.data[i][yr_i]
               = SuppliedCell(i, yr_i)
                 + SumOver(0 .. (yr_i - 1), [y \in 0 .. (yr_i - 1) |-> SuppliedCell(i, y)])
          /\ \A y \in Range(C_fin.columns) \ {yr_i} : C_fin.data[i][y] = SuppliedCell(i, y)
          /\ SumOver(Range(C_fin.columns), C_fin.data[i])
               = SumOver(0 .. yr_f, [y \in 0 .. yr_f |-> SuppliedCell(i, y)])

\* the construction years: the columns of the wrangled supplied table
ConstructionYears == Range(_wrangle_capex(capex_supplied).C_fin.columns)

\* C10: after read_project_inputs, for any supplied capex table, yr_op is the
\* last construction year plus 1, the first year of yrs_op is yr_op, the
\* construction and operation years are disjoint and together are the
\* evaluation years, and N_yr_bld + N_yr_op is the duration.
C10_PeriodSplit ==
  "yr_op" \in defined =>
     /\ yr_op = Max(ConstructionYears) + 1
     /\ yrs_op # {} => (\A y \in yrs_op : yr_op <= y) /\ yr_op \in yrs_op
     /\ ConstructionYears \cap yrs_op = {}
     /\ ConstructionYears \cup yrs_op = yrs
     /\ N_yr_bld + N_yr_op = N_yr

\* C5: after _compute_deterioration the remaining-value ratio (in 1/100) of
\* every included item of finite lifetime lies in [0, 2]; for an infinite
\* lifetime it is exactly 1.0 and the item is not flagged for replacement.
C5_RemRatioRange ==
  "RV" \in defined =>
     \A i \in DOMAIN RV :
        IF RV[i].lifetime = inf
        THEN RV[i].rem_ratio = 100 /\ RV[i].replace = 0
        ELSE 0 <= RV[i].rem_ratio /\ RV[i].rem_ratio <= 200

\* C6: after compute_replacements every capex item flagged replace = 1 has
\* its replacement cost, total capex times replacement_cost_ratio, in the one
\* year yr_op - 1 + lifetime, which is an operation year of the horizon, and
\* nothing in any other year, in financial and in economic terms; items not
\* flagged have no replacement cost.
C6_ReplRow(F, tot, i) ==
  /\ i \in DOMAIN F.data
  /\ YrRepl(i) \in yrs_op
  /\ YrRepl(i) \in yrs
  /\ \A y \in F.columns :
       IF y = YrRepl(i)
       THEN F.data[i][y] = num(tot[i] * RV[i].replacement_cost_ratio)
       ELSE fillna(F.data[i][y], 0) = 0

C6_ReplacementYear ==
  ("replacements" \in DOMAIN O1_fin /\ "replacements" \in DOMAIN O1_eco) =>
     /\ \A i \in DOMAIN RV :
          IF RV[i].replace = 1
          THEN /\ C6_ReplRow(O1_fin["replacements"], C_fin_tot, i)
               /\ C6_ReplRow(O1_eco["replacements"], C_eco_tot, i)
          ELSE /\ i \notin DOMAIN O1_fin["replacements"].data
               /\ i \notin DOMAIN O1_eco["replacements"].data
     /\ O1_fin["replacements"].columns = yrs

\* the expected residual value of item i for a total capex tot, in 1/10000 of
\* the unit of tot; withRatio says whether a replaced item's value is also
\* multiplied by its replacement-cost ratio (in 1/100)
ExpectedResidual(i, tot, withRatio) ==
  tot * RV[i].rem_ratio
      * (IF withRatio /\ RV[i].replace = 1 THEN RV[i].replacement_cost_ratio ELSE 100)

TotalOrZero(tot, i) == IF i \in DOMAIN tot THEN tot[i] ELSE 0

C7_Shape(withRatio) ==
  ("res_val" \in DOMAIN B1 /\ "res_val" \in DOMAIN I1_fin) =>
     /\ DOMAIN B1["res_val"] = DOMAIN RV
     /\ DOMAIN I1_fin["res_val"] = DOMAIN RV
     /\ \A i \in DOMAIN RV :
          /\ \A y \in yrs \ {yr_f} :
               B1["res_val"][i][y] = num(0) /\ I1_fin["res_val"][i][y] = 0
          /\ I1_fin["res_val"][i][yr_f]
               = ExpectedResidual(i, TotalOrZero(C_fin_tot, i), withRatio)
          /\ IF i \in DOMAIN C_eco_tot
             THEN B1["res_val"][i][yr_f]
                    = num(ExpectedResidual(i, C_eco_tot[i], withRatio))
             ELSE isna(B1["res_val"][i][yr_f])
     /\ \A y \in yrs :
          /\ NI["res_val"][y]
               = SumOver(DOMAIN RV, [i \in DOMAIN RV |-> I1_fin["res_val"][i][y]])
          /\ NB["res_val"][y]
               = SumOver({i \in DOMAIN RV : ~isna(B1["res_val"][i][y])},
                         [i \in DOMAIN RV |-> fillna(B1["res_val"][i][y], 0)])

\* C7 as claimed: after compute_residual_value the residual-value matrices
\* are zero in every year but the last, where each item's entry is its total
\* capex times its remaining-value ratio, and NB/NI['res_val'] are the
\* per-year sums over items.
C7_ResidualAsClaimed == C7_Shape(FALSE)

\* C7 as amended: the same, except that the last-year entry of an item flagged
\* for replacement is also multiplied by its replacement_cost_ratio; an
\* included item with no capex row has 0 in financial terms and an empty
\* (NaN) entry in economic terms, which the sum skips.
C7_ResidualLastYear == C7_Shape(TRUE)

\* a replaced item with a ratio other than 1 has a non-zero residual value
C7_Witness ==
  /\ "res_val" \in DOMAIN B1
  /\ err = ""
  /\ \E i \in DOMAIN RV \cap DOMAIN C_eco_tot :
       /\ RV[i].replace = 1
       /\ RV[i].replacement_cost_ratio # 100
       /\ B1["res_val"][i][yr_f] # num(0)
  /\ \E i \in DOMAIN RV : i \notin DOMAIN C_eco_tot

\* the conversion factor of item i, read off the parameter tables
ItemFactor(i) ==
  IF i \in DOMAIN res_val /\ res_val[i].default_conversion_factor \in DOMAIN conv_fac
  THEN conv_fac[res_val[i].default_conversion_factor]
  ELSE conv_fac["aggregate"]

\* the capex table that read_project_inputs stored
WrangledSupplied == _wrangle_capex(capex_supplied).C_fin

\* C9: after compute_capex economic capex is financial capex times the
\* item's conversion factor (its own when one exists, else the aggregate
\* one) for every item and evaluation year, capex is 0 in every evaluation
\* year without a supplied column, and NC['capex'] is the per-year sum of
\* economic capex over the items.
C9_CapexConversion ==
  "C_eco" \in defined =>
     /\ DOMAIN C_eco = DOMAIN C_fin.data
     /\ DOMAIN C_fin.data = DOMAIN capex_supplied.data
     /\ \A i \in DOMAIN C_eco : \A y \in yrs :
          /\ C_eco[i][y] = C_fin.data[i][y] * ItemFactor(i)
          /\ C_fin.data[i][y]
               = (IF y \in Range(WrangledSupplied.columns)
                  THEN WrangledSupplied.data[i][y] ELSE 0)
     /\ \A y \in yrs :
          NC["capex"][y] = SumOver(DOMAIN C_eco, [i \in DOMAIN C_eco |-> C_eco[i][y]])

\* capex with an item that has its own factor, one that falls back to the
\* aggregate factor, and an evaluation year without a supplied column
C9_Witness ==
  /\ "C_eco" \in defined
  /\ {"land", "bridges"} \subseteq DOMAIN C_eco
  /\ \E y \in yrs : C_eco["land"][y] > 0 /\ C_eco["land"][y] = C_fin.data["land"][y] * 100
  /\ \E y \in yrs : C_eco["bridges"][y] > 0 /\ C_eco["bridges"][y] = C_fin.data["bridges"][y] * 90
  /\ \E y \in yrs : y \notin Range(WrangledSupplied.columns) /\ NC["capex"][y] = 0

(***************************************************************************)
(* Claims on the opex side, checked under SpecOpex.                        *)
(***************************************************************************)
\* compute_opex has run to its end on the present inputs
OpexComputed ==
  /\ err = ""
  /\ "opex_maintenance" \in DOMAIN NC
  /\ "maintenance" \in DOMAIN O1_eco
  /\ "c_op" \in DOMAIN UC

\* the opex of variant v for a key and a year as computed from the road areas
\* and the unit costs, 0 for a key the variant has not
RawOpex(v, key, y) ==
  IF key \in DOMAIN MaintenanceRaw(v) THEN MaintenanceRaw(v)[key][y] ELSE 0

OpexKeys == DOMAIN MaintenanceRaw(0) \cup DOMAIN MaintenanceRaw(1)

\* variant 1's opex exceeds variant 0's for every key and year
Variant1Exceeds ==
  /\ OpexKeys # {}
  /\ \A key \in OpexKeys : \A y \in yrs : RawOpex(1, key, y) > RawOpex(0, key, y)

\* C3 as stated: NC['opex_maintenance'] is sum(O1_eco) - sum(O0_eco), and when
\* variant 1's opex exceeds variant 0's for all sections and years (conversion
\* factor positive) it is strictly positive, read in the weakest way: its
\* total over the years is positive.
C3_OpexNetStrictlyPositive ==
  OpexComputed =>
    /\ \A y \in yrs :
         NC["opex_maintenance"][y] =
           ColumnSums(O1_eco["maintenance"], yrs)[y]
             - ColumnSums(O0_eco["maintenance"], yrs)[y]
    /\ (Variant1Exceeds /\ conv_fac["aggregate"] > 0) =>
         SumOver(yrs, NC["opex_maintenance"]) > 0

\* C3: NC['opex_maintenance'] is sum(O1_eco) - sum(O0_eco) by year; when
\* variant 1's opex exceeds variant 0's for all keys and years (conversion
\* factor positive) it is strictly positive in every operation year and zero
\* in every construction year.
C3_OpexNetPositiveInOperation ==
  OpexComputed =>
    /\ \A y \in yrs :
         NC["opex_maintenance"][y] =
           ColumnSums(O1_eco["maintenance"], yrs)[y]
             - ColumnSums(O0_eco["maintenance"], yrs)[y]
    /\ (Variant1Exceeds /\ conv_fac["aggregate"] > 0) =>
         /\ \A y \in yrs_op : NC["opex_maintenance"][y] > 0
         /\ \A y \in yrs \ yrs_op : NC["opex_maintenance"][y] = 0

\* variant 1 costs more in every key and year, and there are operation years
C3_Witness ==
  /\ OpexComputed
  /\ Variant1Exceeds
  /\ yrs_op # {}
  /\ \E y \in yrs_op : NC["opex_maintenance"][y] > 0

\* C4: after compute_opex, in every construction year (a year of the period
\* outside yrs_op) O1_fin['maintenance'] equals O0_fin['maintenance'], a key
\* missing from variant 0 counting as 0, and NC['opex_maintenance'] is 0.
C4_ConstructionYearsForced ==
  OpexComputed =>
    \A y \in yrs \ yrs_op :
      /\ \A key \in DOMAIN O1_fin["maintenance"] :
           O1_fin["maintenance"][key][y] =
             (IF key \in DOMAIN O0_fin["maintenance"]
              THEN O0_fin["maintenance"][key][y] ELSE 0)
      /\ NC["opex_maintenance"][y] = 0

\* the variants differ in a construction year as computed, and a key of
\* variant 1 is missing from variant 0
C4_Witness ==
  /\ OpexComputed
  /\ \E y \in yrs \ yrs_op : \E key \in OpexKeys : RawOpex(1, key, y) # RawOpex(0, key, y)
  /\ DOMAIN O1_fin["maintenance"] # DOMAIN O0_fin["maintenance"]
  /\ yrs_op # {}

(***************************************************************************)
(* Claims on the value of travel time savings, checked under SpecVtts.     *)
(***************************************************************************)
\* _compute_vtts has run to its end
VttsComputed ==
  /\ "vtts" \in DOMAIN NB
  /\ "vtts" \in DOMAIN UC
  /\ "T0" \in defined

\* the premises of the claim: intensities not negative, unit costs positive,
\* travel time lower in variant 1 for every (section, vehicle, year)
VttsPremises ==
  /\ \A k \in DOMAIN I0 : \A y \in yrs : I0[k][y] >= 0
  /\ \A k \in DOMAIN I1 : \A y \in yrs : I1[k][y] >= 0
  /\ \A k \in DOMAIN UC["vtts"] : \A y \in yrs :
       ~isna(UC["vtts"][k][y]) /\ UC["vtts"][k][y][1] > 0
  /\ DOMAIN T0 # {} /\ DOMAIN T0 = DOMAIN T1
  /\ \A k \in DOMAIN T0 : \A y \in yrs : T1[k][y] < T0[k][y]

\* C2 as stated: for any non-negative intensities and positive unit costs, if
\* travel time is strictly lower in variant 1 for every (section, vehicle,
\* year), NB['vtts'] is strictly positive, read in the weakest way: its total
\* over the years is positive.
C2_VttsStrictlyPositive ==
  (VttsComputed /\ VttsPremises) => SumOver(yrs, NB["vtts"]) > 0

\* variant 1 carries no more traffic than variant 0 on any travel-time row
IntensityNotHigher ==
  \A k \in DOMAIN T0 :
    /\ k \in DOMAIN I0 /\ k \in DOMAIN I1
    /\ \A y \in yrs : I1[k][y] <= I0[k][y]

\* some row with a unit cost carries traffic in variant 0 in year y
CarriesTraffic(y) ==
  \E k \in DOMAIN T0 :
    /\ k \in DOMAIN I0 /\ I0[k][y] > 0
    /\ \E u \in DOMAIN UC["vtts"] : u[1] = k[2]

\* C2: NB['vtts'] = sum(B0['vtts']) - sum(B1['vtts']) by year; under the
\* premises of the claim and with variant 1's intensities nowhere above
\* variant 0's, it is not negative in any year and strictly positive in every
\* year in which some section carries traffic in variant 0.
C2_VttsPositiveWithTraffic ==
  VttsComputed =>
    /\ \A y \in yrs :
         NB["vtts"][y] = ColumnSumsSkipNa(B0["vtts"], yrs)[y]
                           - ColumnSumsSkipNa(B1["vtts"], yrs)[y]
    /\ (VttsPremises /\ IntensityNotHigher) =>
         \A y \in yrs : /\ NB["vtts"][y] >= 0
                        /\ CarriesTraffic(y) => NB["vtts"][y] > 0

\* the premises hold, traffic does not grow, and a year has a positive net
\* benefit
C2_Witness ==
  /\ VttsComputed
  /\ VttsPremises
  /\ IntensityNotHigher
  /\ \E y \in yrs : CarriesTraffic(y) /\ NB["vtts"][y] > 0
  /\ \E y \in yrs : ~CarriesTraffic(y)

(***************************************************************************)
(* Claims on the economic indicators, checked under SpecEco.               *)
(***************************************************************************)
EcoComputed == "df_eco" \in defined /\ err = ""

\* the present value of the sequence v from year t on, seen from year t, as a
\* numerator over (denominator + numerator)^(Len(v) - t): the value of the
\* year plus the discounted value of the years after it
RECURSIVE Horner(_, _, _)
Horner(r, v, t) ==
  IF t = Len(v) THEN v[t]
  ELSE v[t] * ((r[1] + r[2]) ^ (Len(v) - t)) + r[2] * Horner(r, v, t + 1)

\* the sums of the ledger's columns, NaN skipped, in the order of the years
LedgerColumnSums ==
  LET c == SortedSeq(EcoColumns)
  IN [t \in 1 .. Len(c) |->
        SumSkipNa(DOMAIN df_eco, [k \in DOMAIN df_eco |-> df_eco[k][c[t]]])]

\* the ledger of the worked example: cost row [-100, 0, 0], benefit row
\* [0, 0, 121], 10%
C1_Example ==
  /\ N_yr = 3 /\ r_eco = <<1, 10>>
  /\ DOMAIN df_eco = {<<"cost", "capex">>, <<"benefit", "vtts">>}
  /\ df_eco[<<"cost", "capex">>] =
       [y \in yrs |-> num(IF y = yr_i THEN -10000 ELSE 0)]
  /\ df_eco[<<"benefit", "vtts">>] =
       [y \in yrs |-> num(IF y = yr_f THEN 12100 ELSE 0)]

\* C1: compute_economic_indicators builds the ledger from the negated net
\* costs (type 'cost') and the net benefits (type 'benefit'), rounded to the
\* cent; ENPV is the present value of the ledger's column sums at the economic
\* discount rate, the first year undiscounted; ERR, when it is a rate, makes
\* that present value 0; EBCR is the sum of the rounded present values of the
\* benefit rows over minus that of the cost rows; and the ledger [-100, 0, 0],
\* [0, 0, 121] at 10% gives ENPV = 0, ERR = 10%, EBCR = 1.
C1_EconomicIndicators ==
  EcoComputed =>
    /\ DOMAIN df_eco = {<<"cost", c>> : c \in DOMAIN NC}
                         \cup {<<"benefit", b>> : b \in DOMAIN NB}
    /\ \A c \in DOMAIN NC : \A y \in DOMAIN NC[c] :
         df_eco[<<"cost", c>>][y] = num(Round2(-NC[c][y]))
    /\ \A b \in DOMAIN NB : \A y \in DOMAIN NB[b] :
         df_eco[<<"benefit", b>>][y] = num(Round2(NB[b][y]))
    /\ ENPV[1] = Horner(r_eco, LedgerColumnSums, 1)
    /\ ENPV[2] = (r_eco[1] + r_eco[2]) ^ (Len(LedgerColumnSums) - 1)
    /\ ERR.kind = "rate" => Horner(ERR.rate, LedgerColumnSums, 1) = 0
    /\ EBCR[1] = SumSkipNa({k \in DOMAIN df_enpv : k[1] = "benefit"},
                           [k \in DOMAIN df_enpv |-> df_enpv[k]])
    /\ EBCR[2] = -SumSkipNa({k \in DOMAIN df_enpv : k[1] = "cost"},
                            [k \in DOMAIN df_enpv |-> df_enpv[k]])
    /\ \A k \in DOMAIN df_enpv :
         (\A y \in DOMAIN df_eco[k] : ~isna(df_eco[k][y])) =>
           LET v == RowValues(df_eco[k])
               d == (r_eco[1] + r_eco[2]) ^ (Len(v) - 1)
           IN /\ ~isna(df_enpv[k])
              /\ 2 * df_enpv[k][1] * d <= 2 * Horner(r_eco, v, 1) + d
              /\ 2 * df_enpv[k][1] * d >= 2 * Horner(r_eco, v, 1) - d
    /\ C1_Example =>
         /\ ENPV[1] = 0
         /\ ERR = [kind |-> "rate", rate |-> <<1, 10>>]
         /\ EBCR[1] = EBCR[2] /\ EBCR[2] # 0

\* the worked example, computed
C1_Witness ==
  /\ EcoComputed
  /\ C1_Example
  /\ NC["capex"][yr_i] = 100 * MoneyScale
  /\ NB["vtts"][yr_f] = 121 * MoneyScale

(***************************************************************************)
(* SpecUC: the unit-cost series for any GDP growth of 0 or 1 a year, a     *)
(* maintenance table with or without an elasticity column and a base year  *)
(* from year 0 to the year after init_year, or with two base years.  The   *)
(* freight table, late in the processing order, has one base year or two.  *)
(* The other categories are in the price level of init_year; some have the *)
(* elasticity column and some have not.                                    *)
(***************************************************************************)
\* the freight table: both rows of init_year, the second row a year
\* earlier, or both rows of the year after init_year
VftsParamChoices ==
  {[has_gdp |-> TRUE, level_col |-> "base_year",
    rows |-> ("mgv" :> ParamRow(1, p[1], 1)) @@ ("hgv" :> ParamRow(1, p[2], 1))] :
     p \in {<<init_year, init_year>>, <<init_year, init_year - 1>>,
            <<init_year + 1, init_year + 1>>}}

UCParamChoices ==
  {[has_gdp |-> h, level_col |-> LevelCol(h),
    rows |-> (OpexKeyA :> ParamRow(1, by, 1)) @@ (OpexKeyB :> ParamRow(3, by + d, 2))] :
     h \in BOOLEAN, by \in 0 .. (init_year + 1), d \in {0, 1}}

InitUC ==
  /\ N_yr = evaluation_period
  /\ r_eco = <<1, 10>>
  /\ res_val \in ResValChoices
  /\ res_val["pavement"].lifetime = inf /\ res_val["bridges"].included
  /\ conv_fac = ConvFac
  /\ PreparedPrices
  /\ include_freight_time = FALSE
  /\ \E t \in UCParamChoices, f \in VftsParamChoices :
       params_clean = [DefaultParams(init_year) EXCEPT !["c_op"] = t, !["vfts"] = f]
  /\ gdp_growth \in [0 .. yr_f -> {0, 1}]
  /\ InitEngine

NextUC == _create_unit_cost_matrix

SpecUC == InitUC /\ [][NextUC]_vars

(***************************************************************************)
(* Claims on the unit-cost series, checked under SpecUC.                   *)
(***************************************************************************)
\* _create_unit_cost_matrix has run to its end
UCBuilt == err = "" /\ DOMAIN UC = Range(UCCategories) \cup {"c_ghg"}

\* the product of 1 + gdp_growth(j) * e over the years j from a to b
RECURSIVE GrowthProduct(_, _, _)
GrowthProduct(a, b, e) ==
  IF a > b THEN 1 ELSE (1 + gdp_growth[a] * e) * GrowthProduct(a + 1, b, e)

\* C11: for every category with a GDP elasticity column and base year y0 <=
\* init_year, and every row, the series starts from the base value in y0 and
\* follows UC(y) = UC(y-1) * (1 + gdp_growth(y-1) * elasticity) through the
\* last evaluation year: every evaluation year holds the base value times
\* the factors of all years from y0 on, and the recurrence goes on after
\* init_year.
C11_SameRecurrence ==
  UCBuilt =>
    \A b \in Range(UCCategories) :
      LET tab == params_clean[b]
      IN (tab.has_gdp /\ BaseYear(tab) <= yr_i) =>
           \A k \in DOMAIN tab.rows :
             /\ DOMAIN UC[b] = DOMAIN tab.rows
             /\ \A y \in yrs :
                  UC[b][k][y] =
                    num(tab.rows[k].value
                          * GrowthProduct(BaseYear(tab), y - 1,
                                          tab.rows[k].gdp_growth_adjustment))
             /\ \A y \in yrs \ {yr_i} :
                  UC[b][k][y] =
                    num(UC[b][k][y - 1][1]
                          * (1 + gdp_growth[y - 1] * tab.rows[k].gdp_growth_adjustment))

\* a base year before init_year, growth before and after init_year
C11_Witness ==
  /\ UCBuilt
  /\ params_clean["c_op"].has_gdp
  /\ BaseYear(params_clean["c_op"]) < yr_i
  /\ gdp_growth[yr_i - 1] = 1 /\ gdp_growth[yr_i] = 1 /\ gdp_growth[yr_f - 1] = 1
  /\ UC["c_op"][OpexKeyA][yr_f][1] > UC["c_op"][OpexKeyA][yr_i][1]
  /\ UC["c_op"][OpexKeyA][yr_i][1] > params_clean["c_op"].rows[OpexKeyA].value

\* C12: every row of a unit-cost series is constant over the evaluation
\* years and equal to its base value when GDP growth is zero in every year
\* from the base year to the year before the last, and also, for any growth,
\* when the category has no elasticity column.
C12_ConstantSeries ==
  UCBuilt =>
    \A b \in Range(UCCategories) :
      LET tab == params_clean[b]
      IN (\/ ~tab.has_gdp
          \/ \A j \in BaseYear(tab) .. (yr_f - 1) : gdp_growth[j] = 0) =>
           \A k \in DOMAIN tab.rows : \A y \in yrs :
             UC[b][k][y] = num(tab.rows[k].value)

\* a table without the column under growth, and the table with the column
\* under no growth from a base year before init_year
C12_Witness ==
  /\ UCBuilt
  /\ \/ /\ ~params_clean["c_op"].has_gdp
        /\ \A j \in 0 .. (yr_f - 1) : gdp_growth[j] = 1
     \/ /\ params_clean["c_op"].has_gdp
        /\ BaseYear(params_clean["c_op"]) < yr_i
        /\ \A j \in BaseYear(params_clean["c_op"]) .. (yr_f - 1) : gdp_growth[j] = 0
        /\ \E j \in 0 .. (BaseYear(params_clean["c_op"]) - 1) : gdp_growth[j] = 1

(***************************************************************************)
(* prepare_parameters.  A table as read is                                 *)
(* [has_gdp, has_level, has_scale |-> whether it has the columns           *)
(*  gdp_growth_adjustment, price_level and scale,                          *)
(*  rows |-> key -> [value, price_level, gdp_growth_adjustment, scale]];   *)
(* the toll rates, the trip purposes and the occupancies as read are       *)
(* vehicle -> toll section type -> rate, vehicle -> purpose -> share and   *)
(* vehicle -> persons.  The values of the prepared tables are exact        *)
(* quotients <<numerator, denominator>>.  Of _wrangle_parameters, what      *)
(* changes a value, a key or a price level is modelled; res_val and         *)
(* conv_fac are the variables of their names.                               *)
(***************************************************************************)
PRICE_LEVEL_ADJUSTED ==
  <<"c_op", "vtts", "voc_l", "voc_t", "vfts", "c_ghg", "c_em", "c_noise", "c_acc">>

\* the price level _wrangle_toll gives the toll rates (2021 in a window that
\* starts in 2000)
TollPriceLevel == 1

TOLL_VALUE_VARS == {"motorway", "parallel", "nonparallel", "other/intravilan"}

\* the tables without a column scale, which _clean_parameters copies as read
PlainTables ==
  {"i_toll", "r_tp", "occ_p", "r_fuel", "fuel_coeffs", "fuel_acc", "r_ghg", "r_em"}

\* the tables of accident rates: rate name -> accident type -> rate, with
\* the scale of the row where the table has the column
AccidentTables == {"r_acc_c", "r_acc_d"}
acc_types == {"fatal", "severe_injury", "light_injury"}

\* product and quotient of two quotients
Times(a, b) == <<a[1] * b[1], a[2] * b[2]>>
Over(a, b) == <<a[1] * b[2], a[2] * b[1]>>

\* _clean_parameters on one table: the value times the scale, the scale
\* dropped
CleanTable(raw) ==
  [has_gdp |-> raw.has_gdp,
   level_col |-> IF raw.has_level THEN "price_level" ELSE "none",
   rows |-> [k \in DOMAIN raw.rows |->
               ParamRow(<<IF raw.has_scale
                          THEN raw.rows[k].value * raw.rows[k].scale
                          ELSE raw.rows[k].value, 1>>,
                        raw.rows[k].price_level,
                        raw.rows[k].gdp_growth_adjustment)]]

\* _clean_parameters on a table of accident rates (the supplied tables have
\* the three rates): the rates times the scale, the scale dropped
CleanAccidentRates(raw) ==
  [k \in DOMAIN raw |->
     IF "scale" \in DOMAIN raw[k]
     THEN [t \in DOMAIN raw[k] \ {"scale"} |->
             IF t \in acc_types THEN raw[k][t] * raw[k].scale ELSE raw[k][t]]
     ELSE raw[k]]

\* _clean_parameters: every table read replaces the clean one of its name;
\* the maintenance costs are looked up at the end
CleanParameters(clean, raw) ==
  [tabs |-> [c \in DOMAIN clean \cup DOMAIN raw |->
               IF c \in DOMAIN raw
               THEN IF c \in PlainTables THEN raw[c]
                    ELSE IF c \in AccidentTables THEN CleanAccidentRates(raw[c])
                    ELSE CleanTable(raw[c])
               ELSE clean[c]],
   err |-> IF "c_op" \in DOMAIN clean \cup DOMAIN raw THEN "" ELSE "KeyError"]

\* _adjust_price_level on one table: every value times the index of the
\* year of its price level; price_level renamed where the table has the
\* column gdp_growth_adjustment
AdjustTable(tab, index) ==
  [has_gdp |-> tab.has_gdp,
   level_col |-> IF tab.has_gdp THEN "base_year" ELSE tab.level_col,
   rows |-> [k \in DOMAIN tab.rows |->
               [tab.rows[k] EXCEPT
                  !.value = Times(@, index[tab.rows[k].base_year].cpi_index)]]]

\* _adjust_price_level after the first n categories of its list
RECURSIVE AdjustUpTo(_, _, _)
AdjustUpTo(tabs, index, n) ==
  IF n = 0 THEN [tabs |-> tabs, err |-> ""]
  ELSE LET prev == AdjustUpTo(tabs, index, n - 1)
           c == PRICE_LEVEL_ADJUSTED[n]
       IN IF prev.err # "" THEN prev
          ELSE IF c \notin DOMAIN prev.tabs
          THEN [tabs |-> prev.tabs, err |-> "KeyError"]
          ELSE IF prev.tabs[c].level_col # "price_level"
          THEN [tabs |-> prev.tabs, err |-> "AttributeError"]
          ELSE IF \E k \in DOMAIN prev.tabs[c].rows :
                    prev.tabs[c].rows[k].base_year \notin DOMAIN index
          THEN [tabs |-> prev.tabs, err |-> "KeyError"]
          ELSE [tabs |-> Put(prev.tabs, c, AdjustTable(prev.tabs[c], index)),
                err |-> ""]

AdjustPriceLevel(tabs, index) == AdjustUpTo(tabs, index, Len(PRICE_LEVEL_ADJUSTED))

\* a step of _wrangle_parameters after the steps before it
Then(r, Step(_)) == IF r.err # "" THEN r ELSE Step(r.tabs)

\* a step that only re-indexes the tables of some categories
Missing(tabs, cats) ==
  [tabs |-> tabs, err |-> IF cats \subseteq DOMAIN tabs THEN "" ELSE "KeyError"]

\* _wrangle_toll: the rates by (vehicle, toll section type), in the price
\* level 2021; the melted table is stored before the operation costs are
\* looked up
WrangleToll(tabs) ==
  IF "i_toll" \notin DOMAIN tabs
     \/ \E v \in DOMAIN tabs["i_toll"] : ~(TOLL_VALUE_VARS \subseteq DOMAIN tabs["i_toll"][v])
  THEN [tabs |-> tabs, err |-> "KeyError"]
  ELSE LET melted ==
             [has_gdp |-> FALSE, level_col |-> "price_level",
              rows |-> [k \in (DOMAIN tabs["i_toll"]) \X TOLL_VALUE_VARS |->
                          ParamRow(<<tabs["i_toll"][k[1]][k[2]], 1>>,
                                   TollPriceLevel, 0)]]
       IN [tabs |-> Put(tabs, "i_toll", melted),
           err |-> IF "c_toll" \in DOMAIN tabs THEN "" ELSE "KeyError"]

\* _wrangle_vtts: a row for every (vehicle, purpose) of the trip purposes,
\* transit and train dropped: the unit value of the purpose times the share
\* of the purpose times the occupancy, NaN where the vehicle has no occupancy
\* or the purpose no unit value; the base year and the elasticity of the
\* purpose, NaN where it has no unit value
WrangleVtts(tabs) ==
  IF ~({"r_tp", "occ_p", "vtts"} \subseteq DOMAIN tabs)
     \/ ~({"transit", "train"} \subseteq DOMAIN tabs["r_tp"])
     \/ tabs["vtts"].level_col # "base_year"
  THEN [tabs |-> tabs, err |-> "KeyError"]
  ELSE LET unit == tabs["vtts"]
           vehicles == DOMAIN tabs["r_tp"] \ {"transit", "train"}
           keys == UNION {{<<v, p>> : p \in DOMAIN tabs["r_tp"][v]} : v \in vehicles}
       IN [tabs |->
             Put(tabs, "vtts",
                 [has_gdp |-> TRUE, level_col |-> "base_year",
                  rows |-> [k \in keys |->
                              IF k[2] \notin DOMAIN unit.rows
                              THEN ParamRow(nan, nan, nan)
                              ELSE IF k[1] \notin DOMAIN tabs["occ_p"]
                              THEN [unit.rows[k[2]] EXCEPT !.value = nan]
                              ELSE [unit.rows[k[2]] EXCEPT
                                      !.value = Times(@, <<tabs["r_tp"][k[1]][k[2]]
                                                            * tabs["occ_p"][k[1]], 1>>)]]]),
           err |-> ""]

\* the density of a fuel as cleaned, a whole number of kg/l
Density(rho, f) == rho[f].value[1] \div rho[f].value[2]

\* the fuel cost per litre divided by the density, NaN for a fuel without
\* density
FuelCostPerKg(c_fuel, rho) ==
  [c_fuel EXCEPT
     !.rows = [k \in DOMAIN c_fuel.rows |->
                 [c_fuel.rows[k] EXCEPT
                    !.value = IF k \in DOMAIN rho THEN Over(@, rho[k].value) ELSE nan]]]

\* the polynomial coefficients a0..a3 times the density of the fuel
FuelCoeffsPerKg(coeffs, rho) ==
  [k \in DOMAIN coeffs |->
     [i \in DOMAIN coeffs[k] |->
        IF k[2] \in DOMAIN rho THEN coeffs[k][i] * Density(rho, k[2]) ELSE nan]]

\* the acceleration increments times the density of the fuel
FuelAccPerKg(acc, rho) ==
  [k \in DOMAIN acc |->
     [j \in DOMAIN acc[k] |->
        IF k[2] \in DOMAIN rho THEN acc[k][j] * Density(rho, k[2]) ELSE nan]]

\* _wrangle_fuel: fuel ratios and densities indexed, then the fuel cost, the
\* coefficients and the increments converted from litres to kg, one after
\* the other
WrangleFuel(tabs) ==
  IF ~({"r_fuel", "fuel_rho", "c_fuel"} \subseteq DOMAIN tabs)
  THEN [tabs |-> tabs, err |-> "KeyError"]
  ELSE LET rho == tabs["fuel_rho"].rows
           t1 == Put(tabs, "c_fuel", FuelCostPerKg(tabs["c_fuel"], rho))
       IN IF "fuel_coeffs" \notin DOMAIN tabs
          THEN [tabs |-> t1, err |-> "KeyError"]
          ELSE LET t2 == Put(t1, "fuel_coeffs", FuelCoeffsPerKg(tabs["fuel_coeffs"], rho))
               IN IF "fuel_acc" \notin DOMAIN tabs
                  THEN [tabs |-> t2, err |-> "KeyError"]
                  ELSE [tabs |-> Put(t2, "fuel_acc", FuelAccPerKg(tabs["fuel_acc"], rho)),
                        err |-> ""]

\* _wrangle_vfts: the one row of the table, for each freight vehicle
WrangleVfts(tabs) ==
  IF "vfts" \notin DOMAIN tabs
  THEN [tabs |-> tabs, err |-> "KeyError"]
  ELSE IF Cardinality(DOMAIN tabs["vfts"].rows) # 1
  THEN [tabs |-> tabs, err |-> "ValueError"]
  ELSE LET row == tabs["vfts"].rows[CHOOSE k \in DOMAIN tabs["vfts"].rows : TRUE]
       IN [tabs |->
             Put(tabs, "vfts",
                 [tabs["vfts"] EXCEPT !.rows = [k \in {"mgv", "hgv"} |-> row]]),
           err |-> ""]

WrangleVoc(tabs) == Missing(tabs, {"voc_l", "voc_t"})

\* _wrangle_ghg: the emission rate of every gas times its CO2 equivalence
\* factor, then the carbon prices indexed
WrangleGhg(tabs) ==
  IF "r_ghg" \notin DOMAIN tabs
  THEN [tabs |-> tabs, err |-> "KeyError"]
  ELSE [tabs |-> Put(tabs, "r_ghg",
                     [k \in DOMAIN tabs["r_ghg"] |->
                        tabs["r_ghg"][k].value * tabs["r_ghg"][k].co2e_factor]),
        err |-> IF "c_ghg" \in DOMAIN tabs THEN "" ELSE "KeyError"]

WrangleEmissions(tabs) == Missing(tabs, {"r_em", "c_em"})
WrangleNoise(tabs) == Missing(tabs, {"c_noise"})
WrangleAccidents(tabs) == Missing(tabs, {"r_acc_c", "r_acc_d", "c_acc"})

WrangleParameters(tabs) ==
  Then(Then(Then(Then(Then(Then(Then(Then(Then(
    Missing(tabs, {"c_op"}), WrangleToll), WrangleVtts), WrangleFuel),
    WrangleVoc), WrangleVfts), WrangleGhg), WrangleEmissions), WrangleNoise),
    WrangleAccidents)

\* the tables, the error and the CPI table after the four steps of
\* prepare_parameters on the tables clean and raw and the CPI table
PrepareParametersOf(clean, raw, table) ==
  LET cleaned == CleanParameters(clean, raw)
      index == WrangleCpi(table)
      adjusted == IF cleaned.err # "" THEN cleaned
                  ELSE AdjustPriceLevel(cleaned.tabs, index)
      r == Then(adjusted, WrangleParameters)
  IN [tabs |-> r.tabs, err |-> r.err,
      cpi |-> IF cleaned.err # "" THEN table ELSE index]

PrepareParameters == PrepareParametersOf(params_clean, params_raw, cpi)

prepare_parameters ==
  /\ IF ~acc_loaded
     THEN /\ printed' = "Custom accident rates not loaded."
          /\ UNCHANGED <<params_clean, cpi>> /\ err' = ""
     ELSE /\ params_clean' = PrepareParameters.tabs
          /\ cpi' = PrepareParameters.cpi
          /\ err' = PrepareParameters.err
          /\ UNCHANGED printed
  /\ UNCHANGED <<N_yr, r_eco, res_val, conv_fac, gdp_growth, yr_pl,
                 params_raw, acc_loaded, include_freight_time,
                 cpi_source, gdp_source, inputVars,
                 coreVars, capexVars, RV, matVars, I1_fin, benefitVars,
                 opexVars, NC, NI, ecoVars, defined,
                 fuelVars, tollVars>>

(***************************************************************************)
(* SpecCPI: the CPI table as read, for any price-level year of the window: *)
(* a rate of -10% or +10% or none for every year, over the window, over    *)
(* the window less its last year, or over a year more; the parameter       *)
(* tables as read, their prices in the level of any one year of the        *)
(* window; accident rates loaded or not.                                   *)
(***************************************************************************)
CpiRates == {nan, num(-5), num(5)}

RawRow(v, t, e, s) ==
  [value |-> v, price_level |-> t, gdp_growth_adjustment |-> e, scale |-> s]

\* a table as read with the price level t in every row
RawTable(has_gdp, has_scale, keys, v, t) ==
  [has_gdp |-> has_gdp, has_level |-> TRUE, has_scale |-> has_scale,
   rows |-> [k \in keys |-> RawRow(v, t, IF has_gdp THEN 1 ELSE 0,
                                   IF has_scale THEN 2 ELSE 1)]]

\* the tables read_parameters takes from the parameter file, in price level t
RawParams(t) ==
  [c \in Range(PRICE_LEVEL_ADJUSTED)
           \cup {"c_fuel", "c_toll", "i_toll", "fuel_rho", "r_tp", "occ_p",
                 "r_fuel", "fuel_coeffs", "fuel_acc", "r_ghg", "r_em", "r_acc_d"} |->
     CASE c = "c_op" -> RawTable(TRUE, FALSE, {OpexKeyA}, 1, t)
       [] c = "vtts" -> RawTable(TRUE, FALSE, {"business", "private"}, 2, t)
       [] c = "voc_l" -> RawTable(FALSE, FALSE, {<<"car", "petrol">>}, 1, t)
       [] c = "voc_t" -> RawTable(FALSE, FALSE, {<<"car", "petrol">>}, 1, t)
       [] c = "vfts" -> RawTable(TRUE, FALSE, {"goods"}, 1, t)
       [] c = "c_ghg" -> RawTable(FALSE, FALSE, 0 .. yr_f, 1, t)
       [] c = "c_em" -> RawTable(TRUE, TRUE, {<<"nox", "rural">>}, 1, t)
       [] c = "c_noise" -> RawTable(TRUE, FALSE, {<<"car", "rural">>}, 1, t)
       [] c = "c_acc" -> RawTable(TRUE, TRUE, {"fatal"}, 3, t)
       [] c = "c_fuel" -> RawTable(FALSE, FALSE, {"petrol", "diesel"}, 3, t)
       [] c = "c_toll" -> RawTable(FALSE, FALSE, {"transaction"}, 1, t)
       [] c = "fuel_rho" ->
            [has_gdp |-> FALSE, has_level |-> FALSE, has_scale |-> FALSE,
             rows |-> [k \in {"petrol", "diesel"} |-> RawRow(2, 0, 0, 1)]]
       [] c = "i_toll" ->
            [v \in {"mgv", "hgv"} |-> [s \in TOLL_VALUE_VARS |-> 1]]
       [] c = "r_tp" ->
            [v \in {"car", "transit", "train"} |->
               [p \in {"business", "private"} |-> IF p = "business" THEN 1 ELSE 3]]
       [] c = "r_fuel" ->
            [k \in {"car"} \X {"petrol", "diesel"} |-> 50]
       [] c = "fuel_coeffs" ->
            [k \in {"car"} \X {"petrol", "diesel"} |-> <<1, 1, 0, 1>>]
       [] c = "fuel_acc" ->
            [k \in {"car"} \X {"petrol", "diesel"} |->
               [j \in Range(ACCELERATION_COLUMNS) |-> 1]]
       [] c = "r_ghg" ->
            [k \in {"car"} \X {"petrol"} \X {"co2", "ch4"} |->
               [value |-> 1, co2e_factor |-> IF k[3] = "co2" THEN 1 ELSE 3]]
       [] c = "r_em" -> [k \in {"car"} \X {"petrol"} \X {"nox"} |-> 1]
       [] c = "r_acc_d" ->
            [k \in {<<"motorway", "2x2">>} |->
               [fatal |-> 1, severe_injury |-> 1, light_injury |-> 2, scale |-> 2]]
       [] OTHER -> [v \in {"car", "transit"} |-> 2]]

\* the accident rates a user supplies, with a column scale or without
AccidentRateChoices ==
  {[k \in {"rate_a"} |-> [fatal |-> 1, severe_injury |-> 2, light_injury |-> 3]],
   [k \in {"rate_a"} |->
      [fatal |-> 1, severe_injury |-> 2, light_injury |-> 3, scale |-> 2]]}

\* read_custom_accident_rates: the table is stored with the raw tables
WithAccidentRates(raw, df_acc_rates) == Put(raw, "r_acc_c", df_acc_rates)

CpiTables ==
  UNION {[D -> {[cpi |-> c] : c \in CpiRates}] :
           D \in {yr_min .. yr_max, yr_min .. (yr_max - 1), yr_min .. (yr_max + 1)}}

InitCPI ==
  /\ N_yr = evaluation_period
  /\ r_eco = <<1, 10>>
  /\ res_val \in ResValChoices
  /\ res_val["pavement"].lifetime = inf /\ res_val["bridges"].included
  /\ conv_fac = ConvFac
  /\ params_clean = <<>>
  /\ gdp_growth = GdpGrowth(0)
  /\ yr_pl \in yr_min .. yr_max
  /\ cpi \in CpiTables
  /\ acc_loaded \in BOOLEAN
  /\ params_raw \in {IF acc_loaded
                     THEN WithAccidentRates(RawParams(t), df)
                     ELSE RawParams(t) :
                       t \in yr_min .. yr_max,
                       df \in {CHOOSE x \in AccidentRateChoices :
                                  "scale" \in DOMAIN x["rate_a"]}}
  /\ include_freight_time = FALSE
  /\ InitEngine

NextCPI ==
  \/ _wrangle_cpi
  \/ prepare_parameters

SpecCPI == InitCPI /\ [][NextCPI]_vars

(***************************************************************************)
(* SpecParams: the public operations on the parameters, in any order, on   *)
(* an engine that has read the parameter file of the package once.         *)
(***************************************************************************)
\* the sheets of the parameter file of the package: the CPI rates of the
\* chosen source, the GDP growth and the parameter tables
ParamFile ==
  [cpi |-> [s \in {"newest"} |->
              [y \in yr_min .. (yr_max - 1) |->
                 [cpi |-> IF y = yr_min THEN num(5) ELSE IF y = yr_min + 1 THEN nan
                          ELSE num(-5)]]],
   gdp_growth |-> [s \in {"newest"} |-> GdpGrowth(0)],
   params |-> RawParams(yr_min)]

\* every table of the file replaces the raw one of its name, custom accident
\* rates stay
FileTables(raw) ==
  [c \in DOMAIN raw \cup DOMAIN ParamFile.params |->
     IF c \in DOMAIN ParamFile.params THEN ParamFile.params[c] ELSE raw[c]]

\* _read_raw_parameters on the CPI table, the GDP growth and the raw tables:
\* ValueError for a CPI source the file does not offer, before anything is
\* assigned, and for such a GDP source, once the CPI table is assigned
ReadRawParameters(table, growth, raw) ==
  IF cpi_source \notin DOMAIN ParamFile.cpi
  THEN [err |-> "ValueError", cpi |-> table, gdp_growth |-> growth,
        params_raw |-> raw]
  ELSE IF gdp_source \notin DOMAIN ParamFile.gdp_growth
  THEN [err |-> "ValueError", cpi |-> ParamFile.cpi[cpi_source],
        gdp_growth |-> growth, params_raw |-> raw]
  ELSE [err |-> "", cpi |-> ParamFile.cpi[cpi_source],
        gdp_growth |-> ParamFile.gdp_growth[gdp_source],
        params_raw |-> FileTables(raw)]

read_parameters ==
  LET r == ReadRawParameters(cpi, gdp_growth, params_raw)
  IN /\ cpi' = r.cpi
     /\ gdp_growth' = r.gdp_growth
     /\ params_raw' = r.params_raw
     /\ err' = r.err
     /\ UNCHANGED <<N_yr, r_eco, res_val, conv_fac, params_clean, yr_pl,
                    acc_loaded, include_freight_time, printed,
                    cpi_source, gdp_source, inputVars,
                    coreVars, capexVars, RV, matVars, I1_fin, benefitVars,
                    opexVars, NC, NI, ecoVars, defined,
                    fuelVars, tollVars>>

read_custom_accident_rates(df_acc_rates) ==
  /\ params_raw' = WithAccidentRates(params_raw, df_acc_rates)
  /\ acc_loaded' = TRUE
  /\ err' = ""
  /\ UNCHANGED <<N_yr, r_eco, res_val, conv_fac, params_clean, cpi, gdp_growth,
                 yr_pl, include_freight_time, printed,
                 cpi_source, gdp_source, inputVars,
                 coreVars, capexVars, RV, matVars, I1_fin, benefitVars,
                 opexVars, NC, NI, ecoVars, defined,
                 fuelVars, tollVars>>

\* run_cba: read_parameters, then prepare_parameters on what was read; an
\* exception of read_parameters ends the call
run_cba ==
  LET r == ReadRawParameters(cpi, gdp_growth, params_raw)
      p == PrepareParametersOf(params_clean, r.params_raw, r.cpi)
  IN /\ gdp_growth' = r.gdp_growth
     /\ params_raw' = r.params_raw
     /\ IF r.err # ""
        THEN /\ cpi' = r.cpi
             /\ err' = r.err
             /\ UNCHANGED <<params_clean, printed>>
        ELSE IF ~acc_loaded
        THEN /\ printed' = "Custom accident rates not loaded."
             /\ cpi' = r.cpi
             /\ UNCHANGED params_clean /\ err' = ""
        ELSE /\ params_clean' = p.tabs
             /\ cpi' = p.cpi
             /\ err' = p.err
             /\ UNCHANGED printed
     /\ UNCHANGED <<N_yr, r_eco, res_val, conv_fac, yr_pl,
                    acc_loaded, include_freight_time,
                    cpi_source, gdp_source, inputVars,
                    coreVars, capexVars, RV, matVars, I1_fin, benefitVars,
                    opexVars, NC, NI, ecoVars, defined,
                    fuelVars, tollVars>>

\* the sources an engine is constructed with
SourceChoices == {"newest", "bogus"}

\* an engine with sources the file offers has read the file once; one with
\* another source has read nothing of it
InitParams ==
  /\ N_yr = evaluation_period
  /\ r_eco = <<1, 10>>
  /\ res_val \in ResValChoices
  /\ conv_fac = ConvFac
  /\ params_clean = <<>>
  /\ yr_pl \in yr_min .. yr_max
  /\ cpi_source \in SourceChoices /\ gdp_source \in SourceChoices
  /\ IF cpi_source \in DOMAIN ParamFile.cpi /\ gdp_source \in DOMAIN ParamFile.gdp_growth
     THEN /\ cpi = ParamFile.cpi[cpi_source]
          /\ gdp_growth = ParamFile.gdp_growth[gdp_source]
          /\ params_raw = ParamFile.params
     ELSE /\ cpi = <<>> /\ gdp_growth = <<>> /\ params_raw = <<>>
  /\ acc_loaded = FALSE
  /\ include_freight_time = FALSE
  /\ InitFields

NextParams ==
  \/ read_parameters
  \/ \E df \in AccidentRateChoices : read_custom_accident_rates(df)
  \/ prepare_parameters
  \/ run_cba

SpecParams == InitParams /\ [][NextParams]_vars

\* without the custom accident rates no table is ever prepared
NothingPreparedWithoutRates == ~acc_loaded => params_clean = <<>>

\* the rates loaded between two calls of prepare_parameters: the second call
\* prepares the tables
PreparedAfterLoading ==
  /\ acc_loaded /\ printed = "Custom accident rates not loaded."
  /\ "r_acc_c" \in DOMAIN params_clean /\ err = ""

(***************************************************************************)
(* Claims on the CPI index, checked under SpecCPI.                         *)
(***************************************************************************)
\* whether the quotient a/b is below c/d (b, d > 0), by whole parts and
\* remainders, so that no product is formed
RECURSIVE Below(_, _, _, _)
Below(a, b, c, d) ==
  LET qa == a \div b
      qc == c \div d
      ra == a % b
      rc == c % d
  IN IF qa # qc THEN qa < qc
     ELSE IF rc = 0 THEN FALSE
     ELSE IF ra = 0 THEN TRUE
     ELSE Below(d, rc, b, ra)

\* the table has been through _wrangle_cpi
CpiWrangled ==
  /\ DOMAIN cpi = yr_min .. yr_max
  /\ \A y \in DOMAIN cpi : "cpi_index" \in DOMAIN cpi[y]

\* what a call of _wrangle_cpi that changes the table leaves: a rate and an
\* index for every year of the window, the rate supplied or else the default,
\* the index 1 in the price-level year and following the two recurrences
CpiPost(old, new) ==
  /\ DOMAIN new = yr_min .. yr_max
  /\ \A y \in yr_min .. yr_max :
       /\ new[y].cpi = IF y \in DOMAIN old /\ ~isna(old[y].cpi)
                       THEN old[y].cpi ELSE num(infl)
       /\ y = yr_pl => new[y].cpi_index = <<1, 1>>
       /\ y < yr_pl =>
            new[y].cpi_index =
              <<new[y + 1].cpi_index[1] * (CpiScale + new[y].cpi[1]),
                new[y + 1].cpi_index[2] * CpiScale>>
       /\ y > yr_pl =>
            new[y].cpi_index =
              <<new[y - 1].cpi_index[1] * CpiScale,
                new[y - 1].cpi_index[2] * (CpiScale + new[y - 1].cpi[1])>>

\* C13: _wrangle_cpi produces an index over every year of the window
\* [yr_min, yr_max]: exactly 1 in the price-level year, index(y) = index(y+1)
\* * (1 + CPI(y)) for each year before it, index(y) = index(y-1) / (1 +
\* CPI(y-1)) for each year after it; years with no supplied CPI use the
\* default inflation rate.
C13_CpiIndexRecurrence == [][cpi' # cpi => CpiPost(cpi, cpi')]_vars

\* an index with years on both sides of the price-level year, a supplied and
\* a defaulted rate
C13_Witness ==
  /\ CpiWrangled
  /\ yr_min < yr_pl /\ yr_pl < yr_max
  /\ \E y \in DOMAIN cpi : cpi[y].cpi = num(infl)
  /\ \E y \in DOMAIN cpi : cpi[y].cpi = num(5)
  /\ cpi[yr_min].cpi_index # <<1, 1>> /\ cpi[yr_max].cpi_index # <<1, 1>>

CpiPositive == \A y \in DOMAIN cpi : cpi[y].cpi[1] > 0

\* C14 as stated: with CPI positive in every year, the index strictly
\* decreases moving backward in time from the price-level year and strictly
\* increases moving forward from it.
C14_CpiDecreasesBackward ==
  (CpiWrangled /\ CpiPositive) =>
    \A y \in yr_min .. yr_max :
      /\ y < yr_pl => Below(cpi[y].cpi_index[1], cpi[y].cpi_index[2],
                            cpi[y + 1].cpi_index[1], cpi[y + 1].cpi_index[2])
      /\ y > yr_pl => Below(cpi[y - 1].cpi_index[1], cpi[y - 1].cpi_index[2],
                            cpi[y].cpi_index[1], cpi[y].cpi_index[2])

\* C14: with CPI positive in every year, the index strictly increases moving
\* backward in time from the price-level year (every earlier year has a
\* larger index, above 1) and strictly decreases moving forward from it (every
\* later year has a smaller index, below 1).
C14_CpiIncreasesBackward ==
  (CpiWrangled /\ CpiPositive) =>
    \A y \in yr_min .. yr_max :
      /\ y < yr_pl => /\ Below(cpi[y + 1].cpi_index[1], cpi[y + 1].cpi_index[2],
                               cpi[y].cpi_index[1], cpi[y].cpi_index[2])
                      /\ Below(1, 1, cpi[y].cpi_index[1], cpi[y].cpi_index[2])
      /\ y > yr_pl => /\ Below(cpi[y].cpi_index[1], cpi[y].cpi_index[2],
                               cpi[y - 1].cpi_index[1], cpi[y - 1].cpi_index[2])
                      /\ Below(cpi[y].cpi_index[1], cpi[y].cpi_index[2], 1, 1)

\* positive rates, years before and after the price-level year
C14_Witness ==
  /\ CpiWrangled /\ CpiPositive
  /\ yr_min + 1 < yr_pl /\ yr_pl < yr_max
  /\ cpi[yr_min].cpi_index[1] > cpi[yr_min].cpi_index[2]
  /\ cpi[yr_max].cpi_index[1] < cpi[yr_max].cpi_index[2]

(***************************************************************************)
(* Claims on the price levels after prepare_parameters, under SpecCPI.     *)
(***************************************************************************)
\* whether two quotients are the same number
FracEq(a, b) == ~Below(a[1], a[2], b[1], b[2]) /\ ~Below(b[1], b[2], a[1], a[2])

\* the tables have been through prepare_parameters
Prepared ==
  /\ "c_op" \in DOMAIN params_clean
  /\ params_clean["c_op"].level_col = "base_year"
  /\ "i_toll" \in DOMAIN params_clean
  /\ CpiWrangled

\* the prepared tables had every index been 1: cleaned and wrangled, no
\* price changed
UnitIndex == [y \in yr_min .. yr_max |-> [cpi_index |-> <<1, 1>>]]

Unadjusted ==
  Then(AdjustPriceLevel(CleanParameters(<<>>, params_raw).tabs, UnitIndex),
       WrangleParameters).tabs

\* the value of every row of table c is the unadjusted value times the index
\* of the year of the row's price level
AdjustedOnce(c) ==
  \A k \in DOMAIN params_clean[c].rows :
     FracEq(params_clean[c].rows[k].value,
            Times(Unadjusted[c].rows[k].value,
                  cpi[params_clean[c].rows[k].base_year].cpi_index))

\* the tables whose rows carry a price level
TaggedTables ==
  {c \in DOMAIN params_clean \ ((PlainTables \ {"i_toll"}) \cup AccidentTables) :
     params_clean[c].level_col # "none"}

\* C15: after prepare_parameters every table whose rows carry a price level
\* (fuel cost, toll operation cost and toll revenue among them) has had its
\* value multiplied exactly once by the index of the price level, a row in
\* the anchor year is unchanged, and the tables with a gdp_growth_adjustment
\* column have price_level renamed to base_year.
C15_AllTaggedTablesAdjusted ==
  Prepared =>
    \A c \in TaggedTables :
       /\ AdjustedOnce(c)
       /\ params_clean[c].has_gdp => params_clean[c].level_col = "base_year"

\* what holds of C15: the tables of PRICE_LEVEL_ADJUSTED are adjusted once
\* and renamed, and a value in the anchor year is the unadjusted one
C15_ListedTablesAdjusted ==
  Prepared =>
    \A c \in Range(PRICE_LEVEL_ADJUSTED) :
       /\ AdjustedOnce(c)
       /\ params_clean[c].has_gdp => params_clean[c].level_col = "base_year"
       /\ \A k \in DOMAIN params_clean[c].rows :
            params_clean[c].rows[k].base_year = yr_pl =>
              params_clean[c].rows[k].value = Unadjusted[c].rows[k].value

\* prepared tables in a price level other than the anchor year, inflation
\* not zero: the fuel cost is the one read, divided by the density
C15_Example ==
  /\ Prepared
  /\ params_clean["c_fuel"].rows["petrol"].base_year # yr_pl
  /\ params_clean["c_fuel"].rows["petrol"].value = <<3, 2>>
  /\ ~FracEq(cpi[params_clean["c_fuel"].rows["petrol"].base_year].cpi_index, <<1, 1>>)
  /\ ~FracEq(params_clean["c_op"].rows[OpexKeyA].value, <<1, 1>>)

(***************************************************************************)
(* Fuel consumption per vehicle.  Velocities, lengths, polynomial          *)
(* coefficients, acceleration shares and increments are integers, so the   *)
(* consumption is exact.  params_clean['r_fuel'] is (vehicle, fuel) ->     *)
(* share in percent, params_clean['fuel_coeffs'] is (vehicle, fuel) ->     *)
(* <<a0, a1, a2, a3>>, params_clean['fuel_acc'] is (vehicle, fuel) ->      *)
(* acceleration column -> increment.  A product of two tables is an outer  *)
(* join: a row of one table without partner in the other is kept, with the *)
(* label NaN in the level it lacks and NaN in every year.                  *)
(***************************************************************************)
_create_fuel_ratio_matrix ==
  IF "r_fuel" \notin DOMAIN params_clean THEN Raise("KeyError")
  ELSE /\ RF' = [k \in DOMAIN params_clean["r_fuel"] |->
                   [y \in yrs |-> params_clean["r_fuel"][k]]]
       /\ defined' = defined \cup {"RF"}
       /\ err' = ""
       /\ UNCHANGED <<paramVars, inputVars, coreVars, capexVars, RV, matVars,
                      I1_fin, benefitVars, opexVars, NC, NI, ecoVars,
                      QF0, QF1, QFv0, QFv1, QFa0, QFa1, tollVars>>

\* x / x: 1, or NaN where x is 0
OnesLike(x) == IF x = 0 THEN nan ELSE num(1)

\* the product of two cells
CellTimes(a, b) == IF isna(a) \/ isna(b) THEN nan ELSE num(a[1] * b[1])

\* the sum of two cells
CellPlus(a, b) == IF isna(a) \/ isna(b) THEN nan ELSE num(a[1] + b[1])

\* numpy's polyval: c[1] + c[2] v + c[3] v^2 + c[4] v^3
PolyVal(v, c) == c[1] + v * (c[2] + v * (c[3] + v * c[4]))

\* the label of a level that an outer join leaves without value
NaNLabel == "NaN"

\* the rows (vehicle, fuel, section) of a vehicle with fuel ratios and
\* traffic
FuelKeysMatched(V) ==
  {<<p[1][1], p[1][2], p[2][1]>> :
     p \in {q \in (DOMAIN RF) \X (DOMAIN V) : q[2][2] = q[1][1]}}

\* the rows of the product of the fuel ratios and a traffic table, joined on
\* the vehicle: the matched rows, the traffic rows of a vehicle without fuel
\* ratio and the fuel rows of a vehicle without traffic
FuelKeys(V) ==
  FuelKeysMatched(V)
  \cup {<<q[2], NaNLabel, q[1]>> :
          q \in {x \in DOMAIN V : ~\E p \in DOMAIN RF : p[1] = x[2]}}
  \cup {<<p[1], p[2], NaNLabel>> :
          p \in {x \in DOMAIN RF : ~\E q \in DOMAIN V : q[2] = x[1]}}

\* the velocity of every fuel row, masked by the fuel ratios
FuelVelocity(V) ==
  [k \in FuelKeys(V) |->
     [y \in yrs |->
        IF k \in FuelKeysMatched(V)
        THEN CellTimes(OnesLike(RF[<<k[1], k[2]>>][y]), num(V[<<k[3], k[1]>>][y]))
        ELSE nan]]

ZeroFrame(keys) == [k \in keys |-> [y \in yrs |-> num(0)]]

\* the frame of zeros with the polynomial of the velocity written for the
\* coefficient rows in done
FuelWritten(Vs, coeffs, done) ==
  [k \in DOMAIN Vs |->
     [y \in yrs |->
        IF <<k[1], k[2]>> \notin done THEN num(0)
        ELSE IF isna(Vs[k][y]) THEN nan
        ELSE num(PolyVal(Vs[k][y][1], coeffs[<<k[1], k[2]>>]))]]

\* the polynomial of the velocity for the rows that have coefficients, 0
\* for the others
FuelByVelocity(Vs, coeffs) == FuelWritten(Vs, coeffs, DOMAIN coeffs)

\* whether the fuel frame Vs has rows of the vehicle and fuel p
HasFuelRows(Vs, p) == \E x \in DOMAIN Vs : <<x[1], x[2]>> = p

\* times the length of the section
FuelVelocityPart(QF, L) ==
  [k \in DOMAIN QF |->
     [y \in yrs |-> IF k[3] \in DOMAIN L THEN CellTimes(QF[k][y], num(L[k[3]][y]))
                    ELSE nan]]

\* the acceleration part of variant v: by fuel row and year, the sum over
\* the acceleration columns of share times increment, each masked by the
\* fuel ratio and by the intensity.  The products are outer joins: a fuel
\* row without increments, or on a section without road row in the variant,
\* has no term, and the sum over no term is 0; the sums are grouped by
\* vehicle, fuel and section, which leaves out the rows that lack one
FuelAccelerationPart(v, I, acc) ==
  [k \in FuelKeysMatched(I) |->
     [y \in yrs |->
        LET mask == CellTimes(OnesLike(RF[<<k[1], k[2]>>][y]),
                              OnesLike(I[<<k[3], k[1]>>][y]))
            term == [j \in Range(ACCELERATION_COLUMNS) |->
                       IF <<k[1], k[2]>> \in DOMAIN acc
                          /\ <<k[3], v>> \in DOMAIN RP.rows
                       THEN CellTimes(CellTimes(mask, RP.rows[<<k[3], v>>][j]),
                                      num(acc[<<k[1], k[2]>>][j]))
                       ELSE nan]
        IN num(SumSkipNa(Range(ACCELERATION_COLUMNS), term))]]

\* the sum of two frames, NaN where a row is in one of them only
FramePlus(A, B) ==
  [k \in DOMAIN A \cup DOMAIN B |->
     [y \in yrs |-> IF k \in DOMAIN A /\ k \in DOMAIN B
                    THEN CellPlus(A[k][y], B[k][y]) ELSE nan]]

\* a call of _compute_fuel_consumption that raises e having assigned the
\* fields of the record part; once the velocity part is assigned the road
\* table has been re-indexed by section and back by (section, variant)
FuelRaise(e, part) ==
  /\ err' = e
  /\ RP' = IF "QFv0" \in DOMAIN part THEN [RP EXCEPT !.index = "section_variant"]
           ELSE RP
  /\ QF0' = IF "QF0" \in DOMAIN part THEN part.QF0 ELSE QF0
  /\ QF1' = IF "QF1" \in DOMAIN part THEN part.QF1 ELSE QF1
  /\ QFv0' = IF "QFv0" \in DOMAIN part THEN part.QFv0 ELSE QFv0
  /\ QFv1' = IF "QFv1" \in DOMAIN part THEN part.QFv1 ELSE QFv1
  /\ defined' = defined \cup (DOMAIN part \cap {"QF0", "QF1"})
  /\ UNCHANGED <<paramVars, I0, I1, V0, V1, capex_supplied, coreVars, capexVars,
                 RV, matVars, I1_fin, benefitVars, opexVars, NC, NI, ecoVars,
                 RF, QFa0, QFa1, tollVars>>

_compute_fuel_consumption ==
  IF "L" \notin defined THEN Raise("AssertionError")
  ELSE IF "RF" \notin defined THEN Raise("AttributeError")
  ELSE IF "V0" \notin defined THEN Raise("TypeError")
  ELSE
    LET V0s == FuelVelocity(V0)
        V1s == FuelVelocity(V1)
        zero == [QF0 |-> ZeroFrame(DOMAIN V0s), QF1 |-> ZeroFrame(DOMAIN V1s)]
    IN IF "fuel_coeffs" \notin DOMAIN params_clean THEN FuelRaise("KeyError", zero)
       ELSE
         LET coeffs == params_clean["fuel_coeffs"]
             v0 == FuelVelocityPart(FuelByVelocity(V0s, coeffs), L0)
             v1 == FuelVelocityPart(FuelByVelocity(V1s, coeffs), L1)
             bad == {k \in DOMAIN coeffs :
                       ~HasFuelRows(V0s, k) \/ ~HasFuelRows(V1s, k)}
         IN IF bad # {}
            THEN \* the loop raises at the first coefficient row without
                 \* velocities; the rows before it, in the order of the
                 \* table, are written, and so is QF0 of the row itself
                 \* when only variant 1 lacks it
                 \E b \in bad, done \in SUBSET (DOMAIN coeffs \ bad) :
                    FuelRaise("KeyError",
                              [QF0 |-> FuelWritten(V0s, coeffs,
                                         IF HasFuelRows(V0s, b)
                                         THEN done \cup {b} ELSE done),
                               QF1 |-> FuelWritten(V1s, coeffs, done)])
            ELSE IF "fuel_acc" \notin DOMAIN params_clean
            THEN FuelRaise("KeyError",
                           [QF0 |-> FuelByVelocity(V0s, coeffs),
                            QF1 |-> FuelByVelocity(V1s, coeffs),
                            QFv0 |-> v0, QFv1 |-> v1])
            ELSE
              LET a0 == FuelAccelerationPart(0, I0, params_clean["fuel_acc"])
                  a1 == FuelAccelerationPart(1, I1, params_clean["fuel_acc"])
              IN /\ QFv0' = v0 /\ QFv1' = v1
                 /\ QFa0' = a0 /\ QFa1' = a1
                 /\ QF0' = FramePlus(v0, a0)
                 /\ QF1' = FramePlus(v1, a1)
                 /\ RP' = [RP EXCEPT !.index = "section_variant"]
                 /\ defined' = defined \cup {"QF0", "QF1"}
                 /\ err' = ""
                 /\ UNCHANGED <<paramVars, I0, I1, V0, V1, capex_supplied,
                                coreVars, capexVars, RV, matVars, I1_fin,
                                benefitVars, opexVars, NC, NI, ecoVars, RF,
                                tollVars>>

(***************************************************************************)
(* SpecFuel: one set of project inputs, then lengths, travel times, fuel   *)
(* ratios and fuel consumption, in any order.  Section s1 has a length of  *)
(* 0, 1 or 2 km in variant 0 and of 1 km in variant 1; its acceleration    *)
(* shares are all zero, or one, two or three of them are not, one of them  *)
(* possibly not supplied; cars run on petrol and diesel, or on petrol      *)
(* only; the velocity of variant 0 and the intensity of variant 1 differ   *)
(* between the first year and the later years.                             *)
(***************************************************************************)
FuelPairs == {<<"car", "petrol">>, <<"car", "diesel">>}

FuelRatioChoices ==
  {[k \in FuelPairs |-> IF k[2] = "petrol" THEN p ELSE 100 - p] : p \in {50, 100}}

FuelCoeffs == [k \in FuelPairs |-> IF k[2] = "petrol" THEN <<1, 1, 0, 1>> ELSE <<0, 2, 1, 1>>]

FuelAcc ==
  [k \in FuelPairs |->
     [j \in Range(ACCELERATION_COLUMNS) |-> IF j = "interchange" THEN 3 ELSE 1]]

ShareChoices ==
  {[j \in Range(ACCELERATION_COLUMNS) |->
      CASE j = "exit_intravilan" -> num(a)
        [] j = "interchange" -> num(b)
        [] j = "roundabout_extravilan" -> c
        [] OTHER -> num(0)] :
     a \in {0, 1}, b \in {0, 2}, c \in {nan, num(1)}}

FuelRoadInputs ==
  {[k \in {<<"s1", 0>>, <<"s1", 1>>} |->
      sh @@ RoadRow(OpexKeyA, IF k[2] = 0 THEN l ELSE 1, 1, nan)] :
     l \in 0 .. 2, sh \in ShareChoices}

\* the traffic tables <<I0, I1, V0, V1>>
FuelTrafficInputs ==
  LET tab(x) == TrafficTable([k \in {<<"s1", "car">>} |-> x])
  IN {<<tab(<<1, 1>>), tab(i1), tab(v0), tab(<<v1, v1>>)>> :
        i1 \in {0, 1} \X {0, 1},
        v0 \in (0 .. MaxVelocity) \X (0 .. MaxVelocity),
        v1 \in 0 .. MaxVelocity}

InitFuel ==
  /\ N_yr = evaluation_period
  /\ r_eco = <<1, 10>>
  /\ res_val \in ResValChoices
  /\ res_val["pavement"].lifetime = inf /\ res_val["bridges"].included
  /\ conv_fac = ConvFac
  /\ PreparedPrices
  /\ include_freight_time = FALSE
  /\ \E r \in FuelRatioChoices :
       params_clean = Put(Put(Put(DefaultParams(init_year), "r_fuel", r),
                              "fuel_coeffs", FuelCoeffs), "fuel_acc", FuelAcc)
  /\ gdp_growth = GdpGrowth(0)
  /\ InitEngine

ReadFuelInputs ==
  /\ "RP" \notin defined
  /\ \E df_rp \in FuelRoadInputs :
       \E t \in FuelTrafficInputs :
         read_project_inputs(df_rp, CapexTable({yr_i}, {"pavement"}, "full"),
                             t[1], t[2], t[3], t[4])

NextFuel ==
  \/ ReadFuelInputs
  \/ _create_length_matrix
  \/ _compute_travel_time_matrix
  \/ _create_fuel_ratio_matrix
  \/ _compute_fuel_consumption

SpecFuel == InitFuel /\ [][NextFuel]_vars

(***************************************************************************)
(* Claims on the fuel consumption, checked under SpecFuel.                 *)
(***************************************************************************)
\* _compute_fuel_consumption has run to its end
FuelComputed == "QF0" \in defined /\ QFa0 # <<>> /\ QFa1 # <<>>

\* the sum of share times increment over the acceleration columns
AccelerationSum(v, k) ==
  SumOver(Range(ACCELERATION_COLUMNS),
          [j \in Range(ACCELERATION_COLUMNS) |->
             RP.rows[<<k[3], v>>][j][1] * params_clean["fuel_acc"][<<k[1], k[2]>>][j]])

\* the consumption of fuel row k in year y as the two terms give it
ConsumptionByTerms(v, V, L, k, y) ==
  PolyVal(V[<<k[3], k[1]>>][y], params_clean["fuel_coeffs"][<<k[1], k[2]>>]) * L[k[3]][y]
    + AccelerationSum(v, k)

NoAcceleration ==
  \A k \in DOMAIN RP.rows : \A j \in Range(ACCELERATION_COLUMNS) : RP.rows[k][j] = num(0)

\* C16: for every (vehicle, fuel, section, year) and each variant the
\* consumption is the cubic polynomial of the velocity times the length plus
\* the sum over the six junction types of share times increment; with all
\* shares zero it is the velocity term, for any intensities and fuel ratios.
C16_FuelConsumption ==
  FuelComputed =>
    /\ \A k \in DOMAIN QF0 : \A y \in yrs :
         QF0[k][y] = num(ConsumptionByTerms(0, V0, L0, k, y))
    /\ \A k \in DOMAIN QF1 : \A y \in yrs :
         QF1[k][y] = num(ConsumptionByTerms(1, V1, L1, k, y))
    /\ NoAcceleration => QF0 = QFv0 /\ QF1 = QFv1

\* what holds of C16: the two terms where the fuel ratio and the intensity
\* are not zero, and the velocity term alone with all shares zero
C16_FuelConsumptionWithTraffic ==
  FuelComputed =>
    /\ \A k \in DOMAIN QF0 : \A y \in yrs :
         RF[<<k[1], k[2]>>][y] # 0 /\ I0[<<k[3], k[1]>>][y] # 0 =>
           QF0[k][y] = num(ConsumptionByTerms(0, V0, L0, k, y))
    /\ \A k \in DOMAIN QF1 : \A y \in yrs :
         RF[<<k[1], k[2]>>][y] # 0 /\ I1[<<k[3], k[1]>>][y] # 0 =>
           QF1[k][y] = num(ConsumptionByTerms(1, V1, L1, k, y))
    /\ NoAcceleration => QF0 = QFv0 /\ QF1 = QFv1

\* no traffic in the first year on a section with junctions: the
\* acceleration part of that year is 0, that of the later years is not
C16_Example ==
  /\ FuelComputed
  /\ I1[<<"s1", "car">>][yr_i] = 0 /\ I1[<<"s1", "car">>][yr_f] = 1
  /\ AccelerationSum(1, <<"car", "petrol", "s1">>) = 8
  /\ QFa1[<<"car", "petrol", "s1">>][yr_i] = num(0)
  /\ QFa1[<<"car", "petrol", "s1">>][yr_f] = num(8)
  /\ V1[<<"s1", "car">>][yr_f] = MaxVelocity

\* a fuel nobody uses: its consumption is NaN
C16_ExampleNoFuel ==
  /\ FuelComputed
  /\ RF[<<"car", "diesel">>][yr_i] = 0
  /\ isna(QF0[<<"car", "diesel", "s1">>][yr_i])

(***************************************************************************)
(* Claims on the travel times, checked under SpecFuel.                     *)
(***************************************************************************)
TimeComputed == "T0" \in defined

\* the travel times T of a variant with lengths L and velocities V: a row
\* for every (section, vehicle) without 0/0 in any year, holding length over
\* velocity, or 0 where the velocity is 0
TravelTimeAsClaimed(T, L, V) ==
  \A k \in DOMAIN V :
     LET undefined == \E y \in yrs : V[k][y] = 0 /\ L[k[1]][y] = 0
     IN /\ k \in DOMAIN T <=> ~undefined
        /\ k \in DOMAIN T =>
             \A y \in yrs :
                /\ V[k][y] # 0 => T[k][y] * V[k][y] = L[k[1]][y] * TimeScale
                /\ V[k][y] = 0 => T[k][y] = 0
                /\ T[k][y] \in Nat

\* C17: after _compute_travel_time_matrix the travel time of every variant,
\* (section, vehicle) and year is length / velocity where the velocity is
\* not zero and 0 where the velocity is 0 and the length positive; a row
\* with an undefined value (0/0) in any year is removed for all years, and
\* no remaining entry is infinite or NaN.
C17_TravelTime ==
  TimeComputed =>
    /\ TravelTimeAsClaimed(T0, L0, V0)
    /\ TravelTimeAsClaimed(T1, L1, V1)
    /\ DOMAIN T0 \subseteq DOMAIN V0 /\ DOMAIN T1 \subseteq DOMAIN V1

\* variant 0 has 0/0 in the first year only and loses its row; variant 1
\* stands still on a section of 1 km and has the time 0
C17_Witness ==
  /\ TimeComputed
  /\ L0["s1"][yr_i] = 0
  /\ V0[<<"s1", "car">>][yr_i] = 0 /\ V0[<<"s1", "car">>][yr_f] = 1
  /\ <<"s1", "car">> \notin DOMAIN T0
  /\ V1[<<"s1", "car">>][yr_i] = 0
  /\ T1[<<"s1", "car">>][yr_i] = 0

(***************************************************************************)
(* SpecFreight: freight time appraised or not; one set of project inputs   *)
(* with cars and heavy goods vehicles on section s1, then unit costs,      *)
(* lengths, travel times and the value of freight time, in any order.      *)
(***************************************************************************)
FreightTrafficInputs ==
  LET tab(x) == TrafficTable([k \in {<<"s1", "car">>, <<"s1", "hgv">>} |-> x])
  IN {<<tab(<<1, 1>>), tab(i1), tab(<<v0, v0>>), tab(<<v1, v1>>)>> :
        i1 \in {0, 1} \X {0, 1},
        v0 \in 0 .. MaxVelocity, v1 \in 0 .. MaxVelocity}

InitFreight ==
  /\ N_yr = evaluation_period
  /\ r_eco = <<1, 10>>
  /\ res_val \in ResValChoices
  /\ res_val["pavement"].lifetime = inf /\ res_val["bridges"].included
  /\ conv_fac = ConvFac
  /\ PreparedPrices
  /\ include_freight_time \in BOOLEAN
  /\ params_clean = DefaultParams(init_year)
  /\ \E g \in {0, 1} : gdp_growth = GdpGrowth(g)
  /\ InitEngine

ReadFreightInputs ==
  /\ "RP" \notin defined
  /\ \E l \in {1, 2} :
       \E t \in FreightTrafficInputs :
         read_project_inputs([k \in {<<"s1", 0>>, <<"s1", 1>>} |->
                                RoadRow(OpexKeyA, IF k[2] = 0 THEN l ELSE 1, 1, nan)],
                             CapexTable({yr_i}, {"pavement"}, "full"),
                             t[1], t[2], t[3], t[4])

NextFreight ==
  \/ ReadFreightInputs
  \/ _create_unit_cost_matrix
  \/ _create_length_matrix
  \/ _compute_travel_time_matrix
  \/ _compute_vfts

SpecFreight == InitFreight /\ [][NextFreight]_vars

(***************************************************************************)
(* Claims on the freight time savings, checked under SpecFreight.          *)
(***************************************************************************)
\* unit cost * travel time * intensity * DAYS_YEAR for the vehicles that
\* have a unit cost of freight time
VftsAsClaimed(U, T, I) ==
  [k \in {x \in DOMAIN T \cap DOMAIN I : x[2] \in DOMAIN U} |->
     [y \in yrs |-> Mul(U[k[2]][y], num(T[k][y] * I[k][y] * DAYS_YEAR))]]

\* C18: with include_freight_time enabled _compute_vfts stores B0['vfts']
\* and B1['vfts'] = unit cost * travel time * intensity * 365 for the
\* freight vehicles and NB['vfts'] = sum(B0) - sum(B1) under the key
\* 'vfts'; disabled, there is no freight time in the net benefits that make
\* the ledger.
C18_FreightTimeStored ==
  [][/\ (_compute_vfts /\ include_freight_time /\ "T0" \in defined
           /\ "vfts" \in DOMAIN UC) =>
          /\ {"vfts"} \subseteq DOMAIN B0' \cap DOMAIN B1' \cap DOMAIN NB'
          /\ B0'["vfts"] = VftsAsClaimed(UC["vfts"], T0, I0)
          /\ B1'["vfts"] = VftsAsClaimed(UC["vfts"], T1, I1)
          /\ NB'["vfts"] = NetBenefit(B0'["vfts"], B1'["vfts"])
     /\ ~include_freight_time => "vfts" \notin DOMAIN NB']_vars

\* freight time is appraised, unit costs and travel times are there, and
\* the call has raised, leaving no benefit
C18_Example ==
  /\ include_freight_time
  /\ "T0" \in defined /\ "vfts" \in DOMAIN UC
  /\ <<"s1", "hgv">> \in DOMAIN T0
  /\ err = "TypeError"
  /\ B0 = <<>> /\ NB = <<>>

(***************************************************************************)
(* Tolling.  toll_parameters is toll section -> [toll_section_type_0,      *)
(* toll_section_type_1], a type being a cell; the road rows carry the cell *)
(* toll_section.  Financial amounts are in currency, economic ones in      *)
(* 1/100.  Of the income frame the rows of the tolled counts are kept: the *)
(* other rows of the outer product hold NaN only.                          *)
(***************************************************************************)
TSTYPES_E == {"nonparallel", "parallell", "motorway"}
TSTYPES_I == {"other/intravilan"}
TOLLED_VEHICLES == {"mgv", "hgv", "bus"}

read_toll_section_types(df_toll_parameters) ==
  /\ toll_parameters' = df_toll_parameters
  /\ defined' = defined \cup {"toll_parameters"}
  /\ err' = ""
  /\ UNCHANGED <<paramVars, inputVars, coreVars, capexVars, RV, matVars, I1_fin,
                 benefitVars, opexVars, NC, NI, ecoVars, fuelVars, I0_fin>>

\* the smallest element of a non-empty set of integers
Min(S) == CHOOSE x \in S : \A y \in S : x <= y

\* the toll section of a row of the intensity table in variant v, a cell
TollSectionOf(v, k) ==
  IF <<k[1], v>> \in DOMAIN RP.rows THEN RP.rows[<<k[1], v>>].toll_section ELSE nan

\* the type of toll section ts in variant v, a cell
TollTypeOf(v, ts) ==
  IF ts \in DOMAIN toll_parameters
  THEN IF v = 0 THEN toll_parameters[ts].toll_section_type_0
       ELSE toll_parameters[ts].toll_section_type_1
  ELSE nan

\* the rows of the intensities on a toll section of one of the types, for
\* the tolled vehicles
TolledRows(v, I, types) ==
  {k \in DOMAIN I :
     /\ ~isna(TollSectionOf(v, k))
     /\ ~isna(TollTypeOf(v, TollSectionOf(v, k)[1]))
     /\ TollTypeOf(v, TollSectionOf(v, k)[1])[1] \in types
     /\ k[2] \in TOLLED_VEHICLES}

TollGroup(v, k) ==
  <<TollSectionOf(v, k)[1], TollTypeOf(v, TollSectionOf(v, k)[1])[1], k[2]>>

\* the tolled vehicles by (toll section, type, vehicle): the intensities of
\* the road sections of the toll section, aggregated
TolledVehicles(v, I, types, Agg(_)) ==
  LET rows == TolledRows(v, I, types)
  IN [g \in {TollGroup(v, k) : k \in rows} |->
        [y \in yrs |-> Agg({I[k][y] : k \in {x \in rows : TollGroup(v, x) = g}})]]

\* both kinds of toll section, one under the other
TolledAll(v, I) ==
  TolledVehicles(v, I, TSTYPES_E, Min) @@ TolledVehicles(v, I, TSTYPES_I, Max)

\* transactions times the cost of a transaction times DAYS_YEAR
TollOperation(v, I) ==
  LET n == TolledAll(v, I)
  IN [g \in DOMAIN n |->
        [y \in yrs |-> n[g][y] * UC["c_toll"]["toll_transaction_cost"][y][1] * DAYS_YEAR]]

\* the length of toll section ts in variant v
TollLength(v, ts) ==
  LET rows == {k \in RowsOfVariant(v) : RP.rows[k].toll_section = num(ts)}
  IN SumOver(rows, [k \in rows |-> RP.rows[k].length])

\* the toll income: extravilan counts times the length of the toll section
\* times the rate of (vehicle, type) times DAYS_YEAR, NaN without a rate
TollIncome(v, I) ==
  LET n == TolledVehicles(v, I, TSTYPES_E, Min)
  IN [g \in DOMAIN n |->
        [y \in yrs |->
           IF <<g[3], g[2]>> \in DOMAIN UC["i_toll"]
           THEN Mul(num(n[g][y] * TollLength(v, g[1]) * DAYS_YEAR),
                    UC["i_toll"][<<g[3], g[2]>>][y])
           ELSE nan]]

\* net income: variant 1 minus variant 0, by year, NaN skipped
NetIncome(M0, M1) ==
  [y \in yrs |-> ColumnSumsSkipNa(M1, yrs)[y] - ColumnSumsSkipNa(M0, yrs)[y]]

\* a variant of TollRaise that puts the index of the road table back
MutTollRaiseRestores(e) ==
  /\ RP' = [RP EXCEPT !.index = "section_variant"]
  /\ err' = e
  /\ UNCHANGED <<paramVars, I0, I1, V0, V1, capex_supplied, coreVars, capexVars,
                 RV, matVars, I1_fin, benefitVars, opexVars, NC, NI, ecoVars,
                 fuelVars, tollVars, defined>>

\* a call of _compute_toll that raises e after it has re-indexed the road
\* table by section
TollRaise(e) ==
  /\ RP' = [RP EXCEPT !.index = "section"]
  /\ err' = e
  /\ UNCHANGED <<paramVars, I0, I1, V0, V1, capex_supplied, coreVars, capexVars,
                 RV, matVars, I1_fin, benefitVars, opexVars, NC, NI, ecoVars,
                 fuelVars, tollVars, defined>>

\* _compute_toll after its precondition check
TollStages ==
  IF "RP" \notin defined THEN Raise("AttributeError")
  ELSE IF "c_toll" \notin DOMAIN UC THEN TollRaise("KeyError")
  ELSE IF "toll_transaction_cost" \notin DOMAIN UC["c_toll"] THEN TollRaise("KeyError")
  ELSE
    LET F0 == TollOperation(0, I0)
        F1 == TollOperation(1, I1)
        cf == conv_fac["aggregate"]
        J0 == TollIncome(0, I0)
        J1 == TollIncome(1, I1)
    IN /\ O0_fin' = Put(O0_fin, "toll_operation", F0)
       /\ O1_fin' = Put(O1_fin, "toll_operation", F1)
       /\ O0_eco' = Put(O0_eco, "toll_operation", Scale(F0, cf))
       /\ O1_eco' = Put(O1_eco, "toll_operation", Scale(F1, cf))
       /\ NC' = Put(NC, "opex_toll", NetCost(Scale(F0, cf), Scale(F1, cf)))
       /\ IF "i_toll" \in DOMAIN UC
          THEN /\ I0_fin' = Put(I0_fin, "toll", J0)
               /\ I1_fin' = Put(I1_fin, "toll", J1)
               /\ NI' = Put(NI, "income_toll", NetIncome(J0, J1))
               /\ RP' = [RP EXCEPT !.index = "section_variant"]
               /\ err' = ""
          ELSE /\ UNCHANGED <<I0_fin, I1_fin, NI>>
               /\ RP' = [RP EXCEPT !.index = "section"]
               /\ err' = "KeyError"
       /\ UNCHANGED <<paramVars, I0, I1, V0, V1, capex_supplied, coreVars,
                      capexVars, RV, matVars, benefitVars, ecoVars, fuelVars,
                      toll_parameters, defined>>

\* a variant of _compute_toll without the precondition check: the toll
\* section table is missed only when it is first looked at
MutComputeToll ==
  IF "toll_parameters" \notin defined /\ "RP" \in defined THEN TollRaise("TypeError")
  ELSE TollStages

_compute_toll ==
  IF "toll_parameters" \notin defined THEN Raise("AssertionError")
  ELSE TollStages

(***************************************************************************)
(* SpecToll: toll section t1 of any type of the toll rates, or of none, in *)
(* either variant; road sections s1 and s2, s2 on the toll section or on   *)
(* none; cars and heavy goods vehicles; then the toll section types, the   *)
(* unit costs and the toll, in any order.                                  *)
(***************************************************************************)
TollTypeChoices == {nan} \cup {num(t) : t \in TOLL_VALUE_VARS}

TollParameterChoices ==
  {[ts \in {"t1"} |-> [toll_section_type_0 |-> a, toll_section_type_1 |-> b]] :
     a \in TollTypeChoices, b \in TollTypeChoices}

TollRoadInputs ==
  {[k \in {"s1", "s2"} \X {0, 1} |->
      RoadRow(OpexKeyA, IF k[1] = "s1" THEN 1 ELSE l, 1, nan)
        @@ [toll_section |-> IF k[1] = "s1" THEN num("t1") ELSE c]] :
     l \in {1, 2}, c \in {nan, num("t1")}}

\* the traffic tables <<I0, I1, V0, V1>>: variant 1 opens after the first
\* year
TollTrafficInputs ==
  LET rows == {"s1", "s2"} \X {"car", "hgv"}
      int0 == [k \in rows |-> IF k[2] = "car" THEN <<5, 5>>
                              ELSE IF k[1] = "s1" THEN <<2, 2>> ELSE <<1, 1>>]
      int1(i) == [k \in rows |-> IF k[2] = "car" THEN <<5, 5>>
                                 ELSE IF k[1] = "s1" THEN <<0, i>> ELSE <<0, 2>>]
      vel == [k \in rows |-> <<1, 1>>]
  IN {<<TrafficTable(int0), TrafficTable(int1(i)), TrafficTable(vel), TrafficTable(vel)>> :
        i \in {1, 3}}

\* the toll tables after prepare_parameters: the cost of a transaction, and
\* the rates by (vehicle, toll section type)
TollParams ==
  Put(Put(DefaultParams(init_year), "c_toll",
          [has_gdp |-> FALSE, level_col |-> "price_level",
           rows |-> [k \in {"toll_transaction_cost"} |-> ParamRow(1, init_year, 0)]]),
      "i_toll",
      [has_gdp |-> FALSE, level_col |-> "price_level",
       rows |-> [k \in TOLLED_VEHICLES \X TOLL_VALUE_VARS |->
                   ParamRow(CASE k[2] = "motorway" -> 3
                              [] k[2] = "other/intravilan" -> 1
                              [] OTHER -> 2,
                            TollPriceLevel, 0)]])

InitToll ==
  /\ N_yr = evaluation_period
  /\ r_eco = <<1, 10>>
  /\ res_val \in ResValChoices
  /\ res_val["pavement"].lifetime = inf /\ res_val["bridges"].included
  /\ conv_fac = ConvFac
  /\ PreparedPrices
  /\ include_freight_time = FALSE
  /\ params_clean = TollParams
  /\ gdp_growth = GdpGrowth(0)
  /\ InitEngine

ReadTollInputs ==
  /\ "RP" \notin defined
  /\ \E df_rp \in TollRoadInputs :
       \E t \in TollTrafficInputs :
         read_project_inputs(df_rp, CapexTable({yr_i}, {"pavement"}, "full"),
                             t[1], t[2], t[3], t[4])

ReadTollSectionTypes ==
  /\ "toll_parameters" \notin defined
  /\ \E df \in TollParameterChoices : read_toll_section_types(df)

NextToll ==
  \/ ReadTollInputs
  \/ ReadTollSectionTypes
  \/ _create_unit_cost_matrix
  \/ _compute_toll

SpecToll == InitToll /\ [][NextToll]_vars

(***************************************************************************)
(* Claims on the toll, checked under SpecToll.                             *)
(***************************************************************************)
\* _compute_toll has run to its end
TollComputed == "opex_toll" \in DOMAIN NC /\ "income_toll" \in DOMAIN NI

\* the toll section types outside and inside settlements, as the toll rates
\* name them
ExtravilanTypes == TOLL_VALUE_VARS \ TSTYPES_I
IntravilanTypes == TSTYPES_I

\* the tolled vehicles of class veh on toll section ts in variant v and year
\* y: the smallest intensity of its road sections outside settlements, the
\* largest inside, none on a section without a type
ClaimedCount(v, I, ts, veh, y) ==
  LET rows == {k \in DOMAIN I : TollSectionOf(v, k) = num(ts) /\ k[2] = veh}
      t == TollTypeOf(v, ts)
  IN IF rows = {} \/ isna(t) THEN 0
     ELSE IF t[1] \in ExtravilanTypes THEN Min({I[k][y] : k \in rows})
     ELSE IF t[1] \in IntravilanTypes THEN Max({I[k][y] : k \in rows})
     ELSE 0

TollPairs(I) == (DOMAIN toll_parameters) \X (TOLLED_VEHICLES \cap {k[2] : k \in DOMAIN I})

\* the economic operating cost of the toll in variant v and year y
ClaimedOperation(v, I, y) ==
  SumOver(TollPairs(I),
          [p \in TollPairs(I) |->
             ClaimedCount(v, I, p[1], p[2], y)
               * UC["c_toll"]["toll_transaction_cost"][y][1] * DAYS_YEAR
               * conv_fac["aggregate"]])

\* the toll income of variant v in year y: from the sections outside
\* settlements
ClaimedIncome(v, I, y) ==
  SumOver(TollPairs(I),
          [p \in TollPairs(I) |->
             LET t == TollTypeOf(v, p[1])
             IN IF ~isna(t) /\ t[1] \in ExtravilanTypes
                THEN ClaimedCount(v, I, p[1], p[2], y) * TollLength(v, p[1])
                       * UC["i_toll"][<<p[2], t[1]>>][y][1] * DAYS_YEAR
                ELSE 0])

TollAsClaimed ==
  \A y \in yrs :
     /\ NC["opex_toll"][y] = ClaimedOperation(1, I1, y) - ClaimedOperation(0, I0, y)
     /\ NI["income_toll"][y] = ClaimedIncome(1, I1, y) - ClaimedIncome(0, I0, y)

\* C19: the tolled vehicles are the minimum intensity over the road sections
\* of a toll section for the extravilan types and the maximum for the
\* intravilan ones; the operating cost is count * transaction cost * 365 for
\* both, the income count * length * rate * 365 for the extravilan ones
\* only; NC['opex_toll'] and NI['income_toll'] are variant 1 minus variant 0.
C19_Toll == TollComputed => TollAsClaimed

\* what holds of C19: the same where no toll section is of the type parallel
C19_TollWithoutParallel ==
  (TollComputed /\ \A ts \in DOMAIN toll_parameters : \A v \in {0, 1} :
                      TollTypeOf(v, ts) # num("parallel"))
    => TollAsClaimed

\* a toll section of the type parallel in variant 1, with traffic: no
\* transaction and no income is counted
C19_Example ==
  /\ TollComputed
  /\ toll_parameters["t1"].toll_section_type_1 = num("parallel")
  /\ toll_parameters["t1"].toll_section_type_0 = nan
  /\ ClaimedIncome(1, I1, yr_f) > 0
  /\ NI["income_toll"][yr_f] = 0
  /\ NC["opex_toll"][yr_f] = 0

\* a motorway in variant 0 and an intravilan section in variant 1, both
\* over two road sections with different intensities
C19_ExampleMinMax ==
  /\ TollComputed
  /\ toll_parameters["t1"].toll_section_type_0 = num("motorway")
  /\ toll_parameters["t1"].toll_section_type_1 = num("other/intravilan")
  /\ RP.rows[<<"s2", 0>>].toll_section = num("t1")
  /\ O0_fin["toll_operation"][<<"t1", "motorway", "hgv">>][yr_f] = 1 * DAYS_YEAR
  /\ O1_fin["toll_operation"][<<"t1", "other/intravilan", "hgv">>][yr_f] = 3 * DAYS_YEAR
  /\ NI["income_toll"][yr_f] < 0

(***************************************************************************)
(* Claim on the precondition of the economic indicators, under SpecEco.    *)
(***************************************************************************)
\* C20: compute_economic_indicators invoked while NB holds no category
\* fails at its precondition check, and df_eco, df_enpv, ENPV, ERR and EBCR
\* are neither set nor changed.
C20_NoBenefitsFailsEarly ==
  [][(compute_economic_indicators /\ NB = <<>>) =>
       (err' = "AssertionError" /\ UNCHANGED ecoVars)]_vars

\* what the call leaves instead: the ledger of the costs, its present
\* values, ENPV and ERR, no EBCR, and the KeyError of the benefit rows
C20_Example ==
  /\ NB = <<>> /\ NC # <<>>
  /\ err = "KeyError"
  /\ df_eco # <<>> /\ \A k \in DOMAIN df_eco : k[1] = "cost"
  /\ df_enpv # <<>> /\ ENPV # <<>> /\ ERR # <<>>
  /\ EBCR = <<>>

(***************************************************************************)
(* Claims on the failures of the unit-cost series, checked under SpecUC.   *)
(***************************************************************************)
\* a table whose rows do not share one base year
MixedBaseYears(tab) == \E k \in DOMAIN tab.rows : tab.rows[k].base_year # BaseYear(tab)

\* C21: when a category processed by _create_unit_cost_matrix has rows with
\* differing base years, the call fails with an assertion error and UC is
\* exactly what it was before the call.
C21_ValidatedBeforeWriting ==
  [][(/\ _create_unit_cost_matrix
      /\ \E n \in 1 .. Len(UCCategories) : MixedBaseYears(params_clean[UCCategories[n]]))
       => (err' = "AssertionError" /\ UC' = UC)]_vars

\* what the call leaves instead: the series of the categories before the
\* freight table and the empty frame of the freight table
C21_Example ==
  /\ MixedBaseYears(params_clean["vfts"])
  /\ err = "AssertionError"
  /\ DOMAIN UC = {UCCategories[n] : n \in 1 .. 9}
  /\ UC["vfts"] = EmptyFrame(params_clean["vfts"])
  /\ \A y \in yrs : ~isna(UC["c_op"][OpexKeyA][y])

\* the categories before the n-th pass their checks
PassUpTo(n) ==
  \A m \in 1 .. (n - 1) :
    /\ ~MixedBaseYears(params_clean[UCCategories[m]])
    /\ BaseYear(params_clean[UCCategories[m]]) <= yr_i

\* the n-th category is the first to fail, with a base year after init_year
LateBaseYear(n) ==
  /\ PassUpTo(n)
  /\ ~MixedBaseYears(params_clean[UCCategories[n]])
  /\ BaseYear(params_clean[UCCategories[n]]) > yr_i

\* a frame that holds a value
HoldsSeries(frame) == \E k \in DOMAIN frame : \E y \in DOMAIN frame[k] : ~isna(frame[k][y])

\* C30: _create_unit_cost_matrix derives a series only for categories whose
\* base year is not later than init_year; when the base year of a category
\* is after init_year the call fails, the category is left without a value
\* for any year and the categories after it in the processing order are
\* left as they were.
C30_NoSeriesForLateBaseYear ==
  [][_create_unit_cost_matrix =>
       \A n \in 1 .. Len(UCCategories) :
         LET b == UCCategories[n]
         IN /\ (b \in DOMAIN UC' /\ HoldsSeries(UC'[b])) =>
                 BaseYear(params_clean[b]) <= yr_i
            /\ LateBaseYear(n) =>
                 /\ err' = "KeyError"
                 /\ UC'[b] = EmptyFrame(params_clean[b])
                 /\ \A m \in (n + 1) .. Len(UCCategories) :
                      LET a == UCCategories[m]
                      IN IF a \in DOMAIN UC THEN UC'[a] = UC[a]
                         ELSE a \notin DOMAIN UC'
                 /\ IF "c_ghg" \in DOMAIN UC THEN UC'["c_ghg"] = UC["c_ghg"]
                    ELSE "c_ghg" \notin DOMAIN UC']_vars

\* the freight table of the year after init_year has stopped the call: the
\* categories before it have their series, the toll tables have none
C30_Witness ==
  /\ LateBaseYear(9)
  /\ err = "KeyError"
  /\ HoldsSeries(UC["c_op"]) /\ HoldsSeries(UC["c_acc"])
  /\ ~HoldsSeries(UC["vfts"])
  /\ DOMAIN UC = {UCCategories[n] : n \in 1 .. 9}

(***************************************************************************)
(* Claims on the stages called out of order.                               *)
(***************************************************************************)
\* the state the precondition checks are said to protect
StageState == <<B0, B1, NB, NC, NI, O0_fin, O1_fin, O0_eco, O1_eco, RP>>

\* C22: a dependent stage invoked while a required upstream output is
\* missing fails at an explicit precondition check, an assertion, and
\* changes no engine state; here _compute_fuel_consumption without the
\* length matrices or without the fuel-ratio matrix, under SpecFuel.
C22_FailsAtPreconditionCheck ==
  [][(_compute_fuel_consumption /\ ("L" \notin defined \/ "RF" \notin defined))
       => (err' = "AssertionError" /\ UNCHANGED StageState)]_vars

\* the lengths are there, the fuel ratios are not, and the call has ended
\* in the attribute error of a missing table
C22_Example ==
  /\ "L" \in defined /\ "RF" \notin defined
  /\ RF = <<>>
  /\ err = "AttributeError"

\* the toll matrices and what the toll stage writes besides them
TollState == <<RP, O0_fin, O1_fin, O0_eco, O1_eco, I0_fin, I1_fin, NC, NI>>

\* C23: _compute_toll invoked before read_toll_section_types fails at its
\* precondition and leaves RP with its index, the toll operating-cost and
\* toll-income matrices, NC and NI unchanged; no state reached without the
\* toll metadata has an 'opex_toll' or 'income_toll' entry.
C23_TollInertWithoutMetadata ==
  /\ []("toll_parameters" \notin defined =>
          /\ "opex_toll" \notin DOMAIN NC
          /\ "income_toll" \notin DOMAIN NI
          /\ "toll_operation" \notin DOMAIN O0_fin \cup DOMAIN O1_fin
          /\ "toll" \notin DOMAIN I0_fin \cup DOMAIN I1_fin)
  /\ [][(_compute_toll /\ "toll_parameters" \notin defined)
          => (err' = "AssertionError" /\ UNCHANGED TollState)]_vars

\* the inputs are read and the unit costs built, the toll metadata is not
\* loaded, and the toll stage has been refused
C23_Witness ==
  /\ "toll_parameters" \notin defined
  /\ "RP" \in defined /\ RP.index = "range"
  /\ "c_toll" \in DOMAIN UC /\ "i_toll" \in DOMAIN UC
  /\ err = "AssertionError"
  /\ NC = <<>> /\ NI = <<>>

(***************************************************************************)
(* Claim on the optional loaders, checked under SpecCPI.  The call without *)
(* accident rates writes its message and returns.                          *)
(***************************************************************************)
\* with the custom accident rates loaded the call prepares the parameters
PreparesWithAccidentRates ==
  [][(prepare_parameters /\ acc_loaded) =>
       /\ params_clean' = PrepareParameters.tabs
       /\ err' = PrepareParameters.err]_vars

\* C24: prepare_parameters called without a prior read_custom_accident_rates
\* normalizes the parameters as it does when the rates are loaded:
\* params_clean is populated with the cleaned, price-adjusted and wrangled
\* tables and the CPI index is built.
C24_PreparesWithoutAccidentRates ==
  [][(prepare_parameters /\ ~acc_loaded) =>
       /\ params_clean' = PrepareParameters.tabs
       /\ cpi' = WrangleCpi(cpi)
       /\ err' = PrepareParameters.err]_vars

\* the call has been made without the rates: the message is written and
\* no table is prepared
C24_Example ==
  /\ ~acc_loaded
  /\ printed = "Custom accident rates not loaded."
  /\ params_clean = <<>>
  /\ err = ""

(***************************************************************************)
(* Claims on repeated and reordered calls of compute_opex, checked under   *)
(* SpecOpex.                                                               *)
(***************************************************************************)
\* C25: compute_opex is idempotent: a call made after a completed call, the
\* inputs as they were, leaves the maintenance matrices O0_fin, O1_fin,
\* O0_eco, O1_eco and NC['opex_maintenance'] as the first call left them,
\* and no call modifies RP, UC or params_clean.
C25_OpexIdempotent ==
  [][compute_opex =>
       /\ UNCHANGED <<RP, UC, params_clean>>
       /\ ("opex_maintenance" \in DOMAIN NC /\ RP.index = "range") =>
            /\ UNCHANGED <<O0_fin, O1_fin, O0_eco, O1_eco, NC>>
            /\ err' = ""]_vars

\* a completed call with a net cost that is not zero, the road table as
\* read: the state a second call starts from and ends in
C25_Witness ==
  /\ OpexComputed
  /\ RP.index = "range"
  /\ \E y \in yrs : NC["opex_maintenance"][y] # 0
  /\ O0_eco["maintenance"] = Scale(O0_fin["maintenance"], conv_fac["aggregate"])

\* the project inputs are read, read_project_inputs having run to its end,
\* and the unit costs are built
OpexReady ==
  /\ "RP" \in defined /\ "yr_op" \in defined
  /\ DOMAIN UC = Range(UCCategories) \cup {"c_ghg"}

\* C27: compute_opex succeeds in every state in which the project inputs
\* are read and the unit costs are built, before as well as after
\* _create_length_matrix has restructured the index of RP.
C27_OpexInAnyOrder ==
  [][(compute_opex /\ OpexReady) => err' = ""]_vars

\* after _create_length_matrix the call has ended in the KeyError of the
\* 'variant' column, and no opex is stored
C27_Example ==
  /\ OpexReady
  /\ RP.index = "section_variant"
  /\ err = "KeyError"
  /\ "opex_maintenance" \notin DOMAIN NC

\* while the road table is as read the call succeeds
OpexBeforeLengths ==
  [][(compute_opex /\ OpexReady /\ RP.index = "range") => err' = ""]_vars

(***************************************************************************)
(* SpecReread: the project inputs read any number of times, section s1 1   *)
(* or 2 km long in variant 0, more or less traffic in variant 0, at 1 or   *)
(* 2 km/h; the unit costs, the lengths, the travel times and the value of  *)
(* travel time savings in any order between the readings.                  *)
(***************************************************************************)
RereadRoadInputs ==
  {[k \in {<<"s1", 0>>, <<"s1", 1>>} |->
      RoadRow(OpexKeyA, IF k[2] = 0 THEN l ELSE 1, 1, nan)] : l \in {1, 2}}

\* the traffic tables <<I0, I1, V0, V1>>
RereadTrafficInputs ==
  LET tab(x) == TrafficTable([k \in {<<"s1", "car">>} |-> <<x, x>>])
  IN {<<tab(i), tab(1), tab(v), tab(1)>> : i \in {1, 2}, v \in {1, 2}}

InitReread ==
  /\ InitVtts
  /\ res_val["pavement"].lifetime = inf /\ res_val["bridges"].included
  /\ gdp_growth = GdpGrowth(0)

RereadInputs ==
  \E df_rp \in RereadRoadInputs, t \in RereadTrafficInputs :
    read_project_inputs(df_rp, CapexTable({yr_i}, {"pavement"}, "full"),
                        t[1], t[2], t[3], t[4])

NextReread ==
  \/ RereadInputs
  \/ _create_unit_cost_matrix
  \/ _create_length_matrix
  \/ _compute_travel_time_matrix
  \/ _compute_vtts

SpecReread == InitReread /\ [][NextReread]_vars

\* the matrices derived from the inputs
DerivedMatrices == <<L0, L1, T0, T1, RF, QF0, QF1, B0, B1, NB, NC>>

\* the travel times are those of the present lengths and velocities
TimesUpToDate ==
  /\ T0 = TravelTime(LengthOfVariant(0), V0)
  /\ T1 = TravelTime(LengthOfVariant(1), V1)

\* C26: read_project_inputs called again replaces RP and the traffic
\* tables and leaves every matrix derived from the earlier inputs in place
\* and set, so the precondition check of _compute_vtts passes on travel
\* times of the earlier inputs, and the call multiplies them with the new
\* intensities.
C26_NoInvalidation ==
  [][/\ RereadInputs =>
          /\ UNCHANGED DerivedMatrices
          /\ defined \subseteq defined'
          /\ RP'.index = "range"
     /\ (_compute_vtts /\ "T0" \in defined /\ "T1" \in defined
           /\ "vtts" \in DOMAIN UC) =>
          /\ err' = ""
          /\ UNCHANGED <<T0, T1, I0, I1>>
          /\ B0'["vtts"] = VttsMatrix(UC["vtts"], T0, I0)]_vars

\* travel times of a road 2 km long and traffic of 2 vehicles a day read
\* after them for a road of 1 km: the net benefit stored is that of the old
\* travel time and the new intensity
C26_Witness ==
  /\ "T0" \in defined /\ "vtts" \in DOMAIN NB /\ err = ""
  /\ ~TimesUpToDate
  /\ RP.rows[<<"s1", 0>>].length = 1
  /\ \A y \in yrs : I0[<<"s1", "car">>][y] = 2
  /\ B0["vtts"] = VttsMatrix(UC["vtts"], T0, I0)
  /\ B0["vtts"] # VttsMatrix(UC["vtts"], TravelTime(LengthOfVariant(0), V0), I0)

(***************************************************************************)
(* SpecIndex: the stages that re-index the road table.  Section s1 on toll *)
(* section t1, 1 or 2 km long in variant 0, cars on petrol and diesel and  *)
(* heavy goods vehicles, which have no fuel ratio; fuel ratios also of     *)
(* buses, which have no traffic; the toll section a motorway or of no type *)
(* in variant 1; inputs and toll metadata read once, the other stages in   *)
(* any order.                                                              *)
(***************************************************************************)
IndexRoadInputs ==
  {[k \in {"s1"} \X {0, 1} |->
      [j \in Range(ACCELERATION_COLUMNS) |->
         IF j = "interchange" THEN num(1) ELSE nan]
        @@ [toll_section |-> num("t1")]
        @@ RoadRow(OpexKeyA, IF k[2] = 0 THEN l ELSE 1, 1, nan)] : l \in {1, 2}}

\* the traffic tables <<I0, I1, V0, V1>>
IndexTrafficInputs ==
  LET tab(x) == TrafficTable([k \in {"s1"} \X {"car", "hgv"} |-> <<x, x>>])
  IN <<tab(2), tab(1), tab(1), tab(1)>>

\* the fuel ratios and the consumption curves: those of cars, and of buses,
\* which do not run on the section
IndexFuelRatios ==
  [k \in FuelPairs \cup {<<"bus", "diesel">>} |-> IF k[1] = "bus" THEN 100 ELSE 50]

IndexFuelCoeffs ==
  [k \in DOMAIN IndexFuelRatios |->
     IF k \in FuelPairs THEN FuelCoeffs[k] ELSE <<1, 0, 0, 0>>]

IndexTollChoices ==
  {[ts \in {"t1"} |-> [toll_section_type_0 |-> num("motorway"),
                       toll_section_type_1 |-> b]] : b \in {nan, num("motorway")}}

InitIndex ==
  /\ N_yr = evaluation_period
  /\ r_eco = <<1, 10>>
  /\ res_val \in ResValChoices
  /\ res_val["pavement"].lifetime = inf /\ res_val["bridges"].included
  /\ conv_fac = ConvFac
  /\ PreparedPrices
  /\ include_freight_time = FALSE
  /\ params_clean =
       Put(Put(Put(TollParams, "r_fuel", IndexFuelRatios),
               "fuel_coeffs", IndexFuelCoeffs), "fuel_acc", FuelAcc)
  /\ gdp_growth = GdpGrowth(0)
  /\ InitEngine

ReadIndexInputs ==
  /\ "RP" \notin defined
  /\ \E df_rp \in IndexRoadInputs :
       read_project_inputs(df_rp, CapexTable({yr_i}, {"pavement"}, "full"),
                           IndexTrafficInputs[1], IndexTrafficInputs[2],
                           IndexTrafficInputs[3], IndexTrafficInputs[4])

ReadIndexSectionTypes ==
  /\ "toll_parameters" \notin defined
  /\ \E df \in IndexTollChoices : read_toll_section_types(df)

NextIndex ==
  \/ ReadIndexInputs
  \/ ReadIndexSectionTypes
  \/ _create_unit_cost_matrix
  \/ _create_length_matrix
  \/ _create_fuel_ratio_matrix
  \/ _compute_fuel_consumption
  \/ _compute_toll

SpecIndex == InitIndex /\ [][NextIndex]_vars

\* C28: once _create_length_matrix has run, a later stage that completes
\* (here _compute_fuel_consumption and _compute_toll, the stages that
\* re-index RP by id_road_section) leaves RP indexed by (id_road_section,
\* variant) with the rows and attribute values it had, and a failure inside
\* _compute_toll after its precondition check leaves RP indexed by
\* id_road_section alone.
C28_IndexRestored ==
  [][/\ ((_compute_fuel_consumption \/ _compute_toll)
           /\ "L" \in defined /\ err' = "") =>
          /\ RP'.index = "section_variant"
          /\ RP'.rows = RP.rows
     /\ (_compute_toll /\ "L" \in defined /\ "toll_parameters" \in defined
           /\ err' # "") =>
          /\ RP'.index = "section"
          /\ RP'.rows = RP.rows]_vars

\* the toll stage has failed once and left the road table indexed by
\* section, and the fuel consumption and the toll have been computed since:
\* the road table is indexed by (section, variant) again
C28_Witness ==
  /\ "L" \in defined /\ "QF0" \in defined
  /\ "opex_toll" \in DOMAIN NC /\ "income_toll" \in DOMAIN NI
  /\ err = ""
  /\ RP.index = "section_variant"
  /\ RP.rows[<<"s1", 0>>].toll_section = num("t1")

\* a failure of the toll stage for want of unit costs, the lengths computed
C28_WitnessFailure ==
  /\ "L" \in defined /\ "toll_parameters" \in defined
  /\ UC = <<>> /\ err = "KeyError"
  /\ RP.index = "section"

(***************************************************************************)
(* Claim on the classification of the toll section types, checked under    *)
(* SpecToll.                                                               *)
(***************************************************************************)
\* the rows of the intensities of variant v with a tolled vehicle on a toll
\* section of a type that has a rate
RatedRows(v, I) ==
  {k \in DOMAIN I :
     /\ k[2] \in TOLLED_VEHICLES
     /\ ~isna(TollSectionOf(v, k))
     /\ ~isna(TollTypeOf(v, TollSectionOf(v, k)[1]))
     /\ TollTypeOf(v, TollSectionOf(v, k)[1])[1] \in TOLL_VALUE_VARS}

\* every such row is counted in the transactions of its toll section, and
\* in the income when the type is not the intravilan one
RatedRowsCounted(v, I, operation, income) ==
  \A k \in RatedRows(v, I) :
     /\ TollGroup(v, k) \in DOMAIN operation
     /\ TollGroup(v, k)[2] \notin TSTYPES_I => TollGroup(v, k) \in DOMAIN income

\* C29: every toll section type with a rate in the toll-revenue table
\* (motorway, parallel, nonparallel, other/intravilan) is classified as
\* extravilan or intravilan, so the tolled vehicles on a toll section of any
\* of these types are counted in the toll transactions and, for the
\* extravilan types, in the toll income.
C29_RatedTypesCounted ==
  TollComputed =>
    /\ RatedRowsCounted(0, I0, O0_fin["toll_operation"], I0_fin["toll"])
    /\ RatedRowsCounted(1, I1, O1_fin["toll_operation"], I1_fin["toll"])

\* what holds: the rows of the types other than parallel are counted
RatedRowsCountedButParallel ==
  TollComputed =>
    \A k \in RatedRows(1, I1) :
       TollGroup(1, k)[2] # "parallel" => TollGroup(1, k) \in DOMAIN O1_fin["toll_operation"]

\* heavy goods vehicles on a toll section of the type parallel in variant
\* 1, and no row for them in the toll transactions
C29_Example ==
  /\ TollComputed
  /\ toll_parameters["t1"].toll_section_type_1 = num("parallel")
  /\ <<"s1", "hgv">> \in RatedRows(1, I1)
  /\ \A g \in DOMAIN O1_fin["toll_operation"] : g[1] # "t1"

====
